---- MODULE Spec2Model ----
(***************************************************************************)
(* Stage orchestration and data-integrity control plane of QuantumForge:   *)
(* the retry loops of the agents, the stage entry points and their         *)
(* validation, the sequential orchestrator, the AgentMemory learning store *)
(* and the JSON response-recovery parser.                                  *)
(***************************************************************************)
EXTENDS Integers, Sequences, FiniteSets, TLC

VARIABLES
    max_retries,    \* BaseAgent.max_retries, shared by every agent of an orchestrator
    entry,          \* the stage entry point that is running (or ran last)
    pc,             \* position inside the stage entry point
    attempt,        \* loop variable of "for attempt in range(self.max_retries)"
    calls,          \* external model calls made by the current stage invocation
    pauses,         \* sleep(0.5) pauses taken by the current stage invocation
    replies,        \* the class of each reply received by the current invocation
    loop_ret,       \* what the retry loop returned (None while it has not)
    result,         \* what the stage entry point returned (None while it has not)
    error,          \* what the stage entry point raised (NoError while it has not)
    gen_input,      \* the components / param_map content handed to CodegenAgent
    opc,            \* position of generate_quantum_code
    invoked,        \* stages invoked by the current request, in order
    outputs,        \* class of the output each stage of the current request returned, in order
    artifact,       \* what generate_quantum_code returned (None while it has not)
    orch_error,     \* what generate_quantum_code raised (NoFailure while it has not)
    invocations,    \* stage invocations and requests started so far
    request_calls,  \* external model calls made since the current request began
    store,          \* the AgentMemory instance: one list per category
    cleared,        \* clear() ran and no record operation has run since
    proc_calls,     \* record_param_processing calls since the store was last empty
    serial,         \* number of record operations performed so far
    other_calls,    \* calls of the never-evicting record operations since the last clear()
    found,          \* result of the last find operation
    response,       \* the raw text handed to _parse_json_with_retry
    parsed,         \* the outcome of _parse_json_with_retry on response
    fn,             \* the helper function called last ("None" while none was)
    fn_arg,         \* the arguments of the helper function call
    fn_ret          \* what the helper function call returned or raised

stageVars == <<max_retries, entry, pc, attempt, calls, pauses, replies, loop_ret,
               result, error, gen_input>>
orchVars  == <<opc, invoked, outputs, artifact, orch_error, invocations,
               request_calls>>
memVars   == <<store, cleared, proc_calls, serial, other_calls, found>>
parseVars == <<response, parsed>>
fnVars    == <<fn, fn_arg, fn_ret>>
vars == <<stageVars, orchVars, memVars, parseVars, fnVars>>

----------------------------------------------------------------------------
(* Bounds of the model *)

MaxRetriesBound == 3   \* max_retries ranges over 0..MaxRetriesBound
MaxRequestRetries == 2 \* max_retries of the requests checked for termination
MaxInvocations  == 1   \* stage invocations / requests per behaviour
MaxProcessing   == 52  \* record_param_processing calls per behaviour
MaxUnbounded    == 1   \* calls of the never-evicting record operations among them
MaxMemOps       == 2   \* record operations per behaviour with freely chosen inputs
MaxTokens       == 4   \* tokens of a raw reply text
MaxLines        == 3   \* lines of a raw reply text
MaxCatalog      == 4   \* entries of a component registry
MaxComponentList == 2  \* components handed to _compress_schema_for_llm
MaxOrder        == 5   \* names of an execution_order
MaxSource       == 4   \* lines of a generated source
MaxHelpers      == 2   \* helper definitions spliced into a generated source

\* The list size record_param_processing trims to
Capacity == 50

\* The default of max_retries
DefaultMaxRetries == 3

----------------------------------------------------------------------------
(* Values *)

\* Python's None, as a loop / stage result
None == [attempt |-> 0, reply |-> "None"]

\* retries is the set of attempt counts the error message states
NoError == [kind |-> "None", agent |-> "None", retries |-> {}, last |-> "None"]

\* Outcomes of a find operation of AgentMemory: None, a stored value, or a
\* KeyError raised while scanning
Absent == [kind |-> "absent"]
Found(v) == [kind |-> "value", value |-> v]
KeyError == [kind |-> "KeyError"]

\* No helper function was called yet
NoArg == [none |-> TRUE]
NotApplied == [kind |-> "pending"]
NoCall == fn = "None" /\ fn_arg = NoArg /\ fn_ret = NotApplied

\* generate_quantum_code has raised nothing
NoFailure == [stage |-> "None", cause |-> NoError]

\* The classes of what one external call can produce:
\*   api_error     the call raised
\*   empty         empty / whitespace-only text
\*   prose         non-empty text from which no JSON value can be recovered
\*   bad_record    text holding a JSON record that fails the stage's validation
\*   array_record  text holding a JSON array of the stage's required field names
\*   good_record   text holding a JSON value of the shape the stage validates
Replies == {"api_error", "empty", "prose", "bad_record", "array_record", "good_record"}

SyncEntries  == {"semantic", "discovery", "param", "pipeline", "codegen"}
AsyncEntries == {"discovery_async", "param_async"}
StageEntries == SyncEntries \cup AsyncEntries

\* generate_quantum_code's fixed sequence of stages
StageOrder == <<"semantic", "discovery", "param", "pipeline", "codegen">>

ComponentNames == {<<"spin.TFIMHamiltonian", "algo.VQEAlgorithm">>, <<"algo.VQEAlgorithm">>}
Algorithms == {"None", "vqe"}

\* What CodegenAgent.process reads of components and param_map:
\* components' names, param_map["algorithm"], param_map["normalized_params"]["algorithm"]
GenInputs == [components : ComponentNames, algorithm : Algorithms, norm_algorithm : Algorithms]
NoInput == [components |-> <<>>, algorithm |-> "None", norm_algorithm |-> "None"]

EmptyStore == [param_patterns |-> <<>>, param_completions |-> <<>>,
               param_normalizations |-> <<>>, component_combinations |-> <<>>,
               successful_discoveries |-> <<>>, generation_patterns |-> <<>>,
               successful_generations |-> <<>>, validation_failures |-> <<>>,
               missing_param_cases |-> <<>>]

Categories == DOMAIN EmptyStore

----------------------------------------------------------------------------
(* Agents *)

IsAsync(e) == e \in AsyncEntries

AgentName(e) ==
    CASE e = "semantic" -> "SemanticAgent"
      [] e \in {"discovery", "discovery_async"} -> "DiscoveryAgent"
      [] e \in {"param", "param_async"} -> "ParamProcessorAgent"
      [] e = "pipeline" -> "PipelineAgent"
      [] e = "codegen" -> "CodegenAgent"

\* The try body of one loop iteration succeeds: the call returns and, for the
\* JSON agents, _parse_json_with_retry decodes a value; CodegenAgent's override
\* only cleans the text and returns it.
ParseOk(e, r) ==
    IF e = "codegen"
    THEN r # "api_error"
    ELSE r \in {"bad_record", "array_record", "good_record"}

\* The stage's validation of what the loop returned
Validates(e, r) ==
    CASE e = "semantic" -> r = "good_record"
      [] e \in {"discovery", "discovery_async"} -> r = "good_record"
      [] e \in {"param", "param_async"} -> r = "good_record"
      [] e = "pipeline" -> r \in {"good_record", "array_record"}
      [] e = "codegen" -> r \in {"prose", "bad_record", "array_record", "good_record"}

----------------------------------------------------------------------------
(* BaseAgent._parse_json_with_retry *)

\* A raw text is the sequence of its lines (split at "\n"), a line the
\* sequence of its tokens:
\*   "{" "}"       a brace of a JSON object (an inner "{" stands for its key too)
\*   "w"           a word of prose
\*   "fence_json"  the opening markdown fence with its json tag
\*   "fence"       a bare markdown fence
Tokens == {"{", "}", "w", "fence_json", "fence"}

\* The empty string
EmptyText == << <<>> >>

\* Outcomes of _parse_json_with_retry
NotParsed == [kind |-> "pending"]
ValueError == [kind |-> "ValueError"]
Decoded(v) == [kind |-> "value", value |-> v]

RECURSIVE Flat(_)
\* The tokens of a text, line breaks dropped
Flat(text) == IF text = <<>> THEN <<>> ELSE Head(text) \o Flat(Tail(text))

\* Number of tokens t among the first i tokens of ts
CountIn(ts, t, i) == Cardinality({j \in 1..i : ts[j] = t})

\* Open braces minus close braces among the first i tokens of ts
Depth(ts, i) == CountIn(ts, "{", i) - CountIn(ts, "}", i)

\* json.loads succeeds on ts: one complete object and nothing else
IsObject(ts) ==
    /\ Len(ts) >= 2
    /\ \A i \in 1..Len(ts) : ts[i] \in {"{", "}"}
    /\ Depth(ts, Len(ts)) = 0
    /\ \A i \in 1..(Len(ts) - 1) : Depth(ts, i) > 0

\* response.strip() == ""
IsBlank(text) == \A i \in 1..Len(text) : text[i] = <<>>

\* The text starts with the opening fence
StartsWithFence(text) == text[1] # <<>> /\ text[1][1] = "fence_json"

\* Both fences are replaced by nothing
Unfenced(line) == SelectSeq(line, LAMBDA t : t \notin {"fence_json", "fence"})

\* The fences removed from every line, then strip(): leading and trailing
\* blank lines dropped
StripFences(text) ==
    LET bare == [i \in 1..Len(text) |-> Unfenced(text[i])]
        full == {i \in 1..Len(bare) : bare[i] # <<>>}
    IN IF full = {} THEN EmptyText
       ELSE SubSeq(bare, CHOOSE i \in full : \A j \in full : i <= j,
                         CHOOSE i \in full : \A j \in full : j <= i)

\* The open braces of a line minus its close braces
LineBalance(line) == Depth(line, Len(line))

RECURSIVE BalanceUpTo(_, _, _)
\* brace_count after the lines from..to were appended
BalanceUpTo(text, from, to) ==
    IF to < from THEN 0
    ELSE BalanceUpTo(text, from, to - 1) + LineBalance(text[to])

\* The stripped line starts with an open brace
OpensObject(line) == line # <<>> /\ line[1] = "{"

\* The lines json_lines collects: from the first line opening an object to
\* the first line after which brace_count is 0, or to the end of the text
JsonLines(text) ==
    LET opens == {i \in 1..Len(text) : OpensObject(text[i])}
    IN IF opens = {} THEN <<>>
       ELSE LET start == CHOOSE i \in opens : \A j \in opens : i <= j
                closes == {j \in start..Len(text) : BalanceUpTo(text, start, j) = 0}
                end == IF closes = {} THEN Len(text)
                       ELSE CHOOSE j \in closes : \A k \in closes : j <= k
            IN SubSeq(text, start, end)

\* json.loads raised inside the try
JSONDecodeError == [kind |-> "JSONDecodeError"]

\* The try body of _parse_json_with_retry: a decoded value, a ValueError it
\* raises itself, or the JSONDecodeError of decoding the collected lines
ParseBody(raw) ==
    IF IsBlank(raw) THEN ValueError
    ELSE LET text == IF StartsWithFence(raw) THEN StripFences(raw) ELSE raw
         IN IF IsObject(Flat(text)) THEN Decoded(Flat(text))
            ELSE IF JsonLines(text) = <<>> THEN ValueError
            ELSE IF IsObject(Flat(JsonLines(text))) THEN Decoded(Flat(JsonLines(text)))
            ELSE JSONDecodeError

\* The except clauses, with the handler of json.JSONDecodeError left out
CaughtOnlyValueError(outcome) == outcome

\* The except clauses: JSONDecodeError and every other Exception are raised
\* again as ValueError
Caught(outcome) == IF outcome.kind = "value" THEN outcome ELSE ValueError

\* _parse_json_with_retry: every failure leaves it as a ValueError
parse_json_with_retry(raw) == Caught(ParseBody(raw))

\* _parse_json_with_retry is called on response
ParseJsonWithRetry ==
    /\ parsed = NotParsed
    /\ parsed' = parse_json_with_retry(response)
    /\ UNCHANGED <<response, stageVars, orchVars, memVars, fnVars>>

----------------------------------------------------------------------------
(* AgentMemory: record_success_case *)

\* The case record of record_success_case (its timestamp is never read)
SuccessCase(agent_type, input_data, output_data) ==
    [agent_type |-> agent_type, input |-> input_data, output |-> output_data]

\* record_success_case: the case is appended to the list of its agent type and
\* dropped for every other agent type; no list is trimmed.
record_success_case(st, agent_type, input_data, output_data) ==
    LET case == SuccessCase(agent_type, input_data, output_data) IN
    CASE agent_type = "DiscoveryAgent" ->
           [st EXCEPT !.successful_discoveries = Append(@, case)]
      [] agent_type = "ParamNormAgent" ->
           [st EXCEPT !.param_normalizations = Append(@, case)]
      [] agent_type = "CodegenAgent" ->
           [st EXCEPT !.successful_generations = Append(@, case)]
      [] OTHER -> st

\* AgentWithMemory._record_success: the agent's class name is the agent type
RecordSuccess(st, e, input_data, output_data) ==
    record_success_case(st, AgentName(e), input_data, output_data)

\* The key CodegenAgent.process records its success under
CodegenRecordKey(g) == [components |-> g.components, algorithm |-> g.norm_algorithm]

\* The key CodegenAgent.process looks a similar case up with
CodegenLookupKey(g) == [components |-> g.components, algorithm |-> g.algorithm]

----------------------------------------------------------------------------
(* AgentMemory: the other record operations *)

\* A query, as the set of the keywords its lower-cased text contains
MemQueries == {{"spin"}, {"molecule"}}

\* Components, as far as AgentMemory reads them: name and kind
Hcomp == [name |-> "spin.TFIMHamiltonian", kind |-> "hamiltonian"]
Acomp == [name |-> "algo.VQEAlgorithm", kind |-> "algorithm"]
MemComponents == {<<Hcomp, Acomp>>, <<Acomp>>}

\* A dict of parameters, as its set of (key, value) items
MemDicts == {{}, {<<"n", 8>>}}
Keys(d) == {item[1] : item \in d}

MemTaskCards == {[domain |-> "spin.tfim", algorithm |-> "vqe", params |-> {}],
                 [domain |-> "custom", algorithm |-> "vqe", params |-> {}]}
MemParamMaps == {[normalized_params |-> d, aliases |-> {}] : d \in MemDicts}
AgentTypes == {"DiscoveryAgent", "ParamNormAgent", "CodegenAgent", "SemanticAgent"}
MemOutput == [code |-> [attempt |-> 1, reply |-> "good_record"]]

\* _extract_query_type
ExtractQueryType(query) ==
    IF "ising" \in query \/ "spin" \in query THEN "SPIN_MODEL"
    ELSE IF "molecular" \in query \/ "molecule" \in query THEN "molecular"
    ELSE IF "heisenberg" \in query THEN "heisenberg"
    ELSE "general"

\* [comp.get("kind", "") for comp in components]
ComponentTypes(components) == [i \in 1..Len(components) |-> components[i].kind]
ComponentNamesOf(components) == [i \in 1..Len(components) |-> components[i].name]

\* set(a list)
SetOf(seq) == {seq[i] : i \in 1..Len(seq)}

\* record_param_completion: appended to param_completions, never trimmed
record_param_completion(st, query, components, original_params, completed_params) ==
    LET pattern == [query_type |-> ExtractQueryType(query),
                    component_types |-> ComponentTypes(components),
                    original_params |-> original_params,
                    completed_params |-> completed_params,
                    completion_added |-> Keys(completed_params) \ Keys(original_params)]
    IN [st EXCEPT !.param_completions = Append(@, pattern)]

\* record_param_normalization: appended to param_normalizations, never trimmed
record_param_normalization(st, task_card, param_map) ==
    LET pattern == [domain |-> task_card.domain,
                    algorithm |-> task_card.algorithm,
                    input_params |-> task_card.params,
                    normalized_params |-> param_map.normalized_params,
                    aliases |-> param_map.aliases]
    IN [st EXCEPT !.param_normalizations = Append(@, pattern)]

\* record_component_success: appended to component_combinations
record_component_success(st, task_card, components) ==
    LET combination == [domain |-> task_card.domain,
                        algorithm |-> task_card.algorithm,
                        component_names |-> ComponentNamesOf(components),
                        component_kinds |-> ComponentTypes(components)]
    IN [st EXCEPT !.component_combinations = Append(@, combination)]

\* record_missing_params: appended to missing_param_cases
record_missing_params(st, missing_params, components, context) ==
    LET case == [missing_params |-> missing_params,
                 components |-> ComponentNamesOf(components),
                 context |-> context]
    IN [st EXCEPT !.missing_param_cases = Append(@, case)]

\* if len(list) > 50: list.pop(0)
TrimNewest(list) == IF Len(list) > Capacity THEN SubSeq(list, 1, Len(list) - 1) ELSE list
Trim(list) == IF Len(list) > Capacity THEN Tail(list) ELSE list

\* The two records record_param_processing builds
CompletionRecord(query, components, original_params, processed_result) ==
    [query |-> query,
     query_type |-> ExtractQueryType(query),
     component_types |-> ComponentTypes(components),
     original_params |-> original_params,
     completed_params |-> processed_result.normalized_params]

NormalizationRecord(query, components, original_params, processed_result) ==
    [task_info |-> [params |-> original_params, query |-> query],
     component_types |-> ComponentTypes(components),
     param_map |-> processed_result]

\* record_param_processing: one record appended to param_completions and one
\* to param_normalizations, then each list trimmed
record_param_processing(st, query, components, original_params, processed_result) ==
    [st EXCEPT
       !.param_completions =
           Trim(Append(@, CompletionRecord(query, components, original_params,
                                           processed_result))),
       !.param_normalizations =
           Trim(Append(@, NormalizationRecord(query, components, original_params,
                                              processed_result)))]

\* clear: successful_generations is not among the lists it clears
clear(st) ==
    [st EXCEPT !.param_patterns = <<>>,
               !.param_completions = <<>>,
               !.param_normalizations = <<>>,
               !.component_combinations = <<>>,
               !.successful_discoveries = <<>>,
               !.generation_patterns = <<>>,
               !.validation_failures = <<>>,
               !.missing_param_cases = <<>>]

----------------------------------------------------------------------------
(* AgentMemory: the find operations *)

Least(S) == CHOOSE i \in S : \A j \in S : i <= j

\* A for loop over list that raises KeyError at a record where Raises holds
\* and returns Out of the first record where Hit holds, None if it ends
Scan(list, Raises(_), Hit(_), Out(_)) ==
    LET stops == {i \in 1..Len(list) : Raises(list[i]) \/ Hit(list[i])}
    IN IF stops = {} THEN Absent
       ELSE IF Raises(list[Least(stops)]) THEN KeyError
       ELSE Found(Out(list[Least(stops)]))

Has(rec, key) == key \in DOMAIN rec

\* _find_similar_discovery
FindSimilarDiscovery(st, input_data) ==
    LET Raises(rec) == FALSE
        Hit(rec) == rec.input.domain = input_data.domain
        Out(rec) == rec.output
    IN Scan(st.successful_discoveries, Raises, Hit, Out)

\* _find_similar_param_norm: reads norm["domain"], norm["algorithm"] and, at a
\* match, norm["output"]
FindSimilarParamNorm(st, input_data) ==
    LET Match(rec) == /\ rec.domain = input_data.domain
                      /\ rec.algorithm = input_data.algorithm
        Raises(rec) == \/ ~Has(rec, "domain")
                       \/ (Match(rec) /\ ~Has(rec, "output"))
        Hit(rec) == Has(rec, "domain") /\ Match(rec) /\ Has(rec, "output")
        Out(rec) == rec.output
    IN Scan(st.param_normalizations, Raises, Hit, Out)

\* _find_similar_generation
FindSimilarGeneration(st, input_data) ==
    LET Raises(rec) == FALSE
        Hit(rec) == rec.input = input_data
        Out(rec) == rec.output
    IN Scan(st.successful_generations, Raises, Hit, Out)

\* find_similar_case
find_similar_case(st, agent_type, input_data) ==
    CASE agent_type = "DiscoveryAgent" -> FindSimilarDiscovery(st, input_data)
      [] agent_type = "ParamNormAgent" -> FindSimilarParamNorm(st, input_data)
      [] agent_type = "CodegenAgent" -> FindSimilarGeneration(st, input_data)
      [] OTHER -> Absent

\* find_param_completion_pattern, were the last matching pattern returned
find_param_completion_pattern_newest(st, query, components) ==
    LET list == st.param_completions
        hits == {i \in 1..Len(list) :
                   /\ list[i].query_type = ExtractQueryType(query)
                   /\ SetOf(list[i].component_types) = SetOf(ComponentTypes(components))}
    IN IF hits = {} THEN Absent
       ELSE Found(list[CHOOSE i \in hits : \A j \in hits : j <= i])

\* find_param_completion_pattern
find_param_completion_pattern(st, query, components) ==
    LET Raises(rec) == FALSE
        Hit(rec) == /\ rec.query_type = ExtractQueryType(query)
                    /\ SetOf(rec.component_types) = SetOf(ComponentTypes(components))
        Out(rec) == rec
    IN Scan(st.param_completions, Raises, Hit, Out)

\* find_param_processing_pattern
find_param_processing_pattern(st, query, components) ==
    LET completion_pattern == find_param_completion_pattern(st, query, components)
        Raises(rec) == FALSE
        Hit(rec) == (IF Has(rec, "component_types")
                     THEN SetOf(rec.component_types) ELSE {})
                    = SetOf(ComponentTypes(components))
        Out(rec) == rec
    IN IF completion_pattern # Absent THEN completion_pattern
       ELSE Scan(st.param_normalizations, Raises, Hit, Out)

\* find_param_normalization_pattern: reads pattern["domain"], pattern["algorithm"]
find_param_normalization_pattern(st, task_card) ==
    LET Raises(rec) == ~Has(rec, "domain")
        Hit(rec) == /\ Has(rec, "domain")
                    /\ rec.domain = task_card.domain
                    /\ rec.algorithm = task_card.algorithm
        Out(rec) == rec
    IN Scan(st.param_normalizations, Raises, Hit, Out)

----------------------------------------------------------------------------
(* The retry loops *)

\* for attempt in range(self.max_retries)
InRange(a, m) == a < m

\* if attempt == self.max_retries - 1: raise
LastAttempt(a, m) == a = m - 1

\* raise RuntimeError(f"{agent_name} failed after {self.max_retries}
\* retries: {str(e)}"): the message states the retry count
Exhausted(e, m, r) ==
    [kind |-> "exhausted", agent |-> AgentName(e), retries |-> {m}, last |-> r]

\* raise ValueError(<validation message>) after a reply was obtained,
\* wrapped by the entry point as RuntimeError(f"<agent name>...: {str(e)}"):
\* the message states the agent and no count
ValidationFailed(e, m, r) ==
    [kind |-> "validation", agent |-> AgentName(e), retries |-> {}, last |-> r]

\* The stage has memory to record into, and records on success
RecordsOnSuccess(e) == e = "codegen"

\* A stage entry point returns ret: CodegenAgent.process records its success
\* first; no other entry point records anything.
StageReturn(ret) ==
    /\ pc' = "returned"
    /\ result' = ret
    /\ store' = IF RecordsOnSuccess(entry)
                THEN RecordSuccess(store, entry, CodegenRecordKey(gen_input),
                                   [code |-> ret])
                ELSE store
    /\ serial' = IF RecordsOnSuccess(entry) THEN serial + 1 ELSE serial
    /\ cleared' = IF RecordsOnSuccess(entry) THEN FALSE ELSE cleared

\* One iteration of _call_with_retry, were the pause taken before the raise too
CallWithRetryAttemptPausing(r) ==
    /\ pc = "loop"
    /\ ~IsAsync(entry)
    /\ InRange(attempt, max_retries)
    /\ calls' = calls + 1
    /\ request_calls' = request_calls + 1
    /\ replies' = Append(replies, r)
    /\ IF ParseOk(entry, r)
       THEN /\ loop_ret' = [attempt |-> attempt + 1, reply |-> r]
            /\ pc' = "validate"
            /\ UNCHANGED <<attempt, pauses, error>>
       ELSE IF LastAttempt(attempt, max_retries)
       THEN /\ pc' = "raised"
            /\ error' = Exhausted(entry, max_retries, r)
            /\ pauses' = pauses + 1
            /\ UNCHANGED <<attempt, loop_ret>>
       ELSE /\ pauses' = pauses + 1
            /\ attempt' = attempt + 1
            /\ UNCHANGED <<pc, error, loop_ret>>
    /\ UNCHANGED <<max_retries, entry, result, gen_input>>
    /\ UNCHANGED <<opc, invoked, outputs, artifact, orch_error, invocations>>
    /\ UNCHANGED <<memVars, parseVars, fnVars>>

\* One iteration of BaseAgent._call_with_retry / CodegenAgent._call_with_retry:
\* the external call answers with a reply of class r.
CallWithRetryAttempt(r) ==
    /\ pc = "loop"
    /\ ~IsAsync(entry)
    /\ InRange(attempt, max_retries)
    /\ calls' = calls + 1
    /\ request_calls' = request_calls + 1
    /\ replies' = Append(replies, r)
    /\ IF ParseOk(entry, r)
       THEN /\ loop_ret' = [attempt |-> attempt + 1, reply |-> r]
            /\ pc' = "validate"
            /\ UNCHANGED <<attempt, pauses, error>>
       ELSE IF LastAttempt(attempt, max_retries)
       THEN /\ pc' = "raised"
            /\ error' = Exhausted(entry, max_retries, r)
            /\ UNCHANGED <<attempt, pauses, loop_ret>>
       ELSE /\ pauses' = pauses + 1
            /\ attempt' = attempt + 1
            /\ UNCHANGED <<pc, error, loop_ret>>
    /\ UNCHANGED <<max_retries, entry, result, gen_input>>
    /\ UNCHANGED <<opc, invoked, outputs, artifact, orch_error, invocations>>
    /\ UNCHANGED <<memVars, parseVars, fnVars>>

\* The range of _call_with_retry is exhausted without a return or a raise: the
\* function falls off its end and returns None.
CallWithRetryFallThrough ==
    /\ pc = "loop"
    /\ ~IsAsync(entry)
    /\ ~InRange(attempt, max_retries)
    /\ loop_ret' = None
    /\ pc' = "validate"
    /\ UNCHANGED <<max_retries, entry, attempt, calls, pauses, replies, result,
                   error, gen_input>>
    /\ UNCHANGED <<orchVars, memVars, parseVars, fnVars>>

\* The rest of a synchronous process(), were the result recorded before it is
\* validated
ValidateAfterRecording ==
    /\ pc = "validate"
    /\ IF loop_ret # None /\ Validates(entry, loop_ret.reply)
       THEN /\ StageReturn(loop_ret)
            /\ UNCHANGED error
       ELSE /\ pc' = "raised"
            /\ error' = ValidationFailed(entry, max_retries, loop_ret.reply)
            /\ store' = RecordSuccess(store, entry, CodegenRecordKey(gen_input),
                                      [code |-> loop_ret])
            /\ serial' = serial + 1
            /\ UNCHANGED <<result, cleared>>
    /\ UNCHANGED <<max_retries, entry, attempt, calls, pauses, replies, loop_ret,
                   gen_input>>
    /\ UNCHANGED <<orchVars, proc_calls, other_calls, found, parseVars, fnVars>>

\* The rest of a synchronous process(): validate what the loop returned, then
\* return it or raise (validating None raises or yields False in every agent).
Validate ==
    /\ pc = "validate"
    /\ IF loop_ret # None /\ Validates(entry, loop_ret.reply)
       THEN /\ StageReturn(loop_ret)
            /\ UNCHANGED error
       ELSE /\ pc' = "raised"
            /\ error' = ValidationFailed(entry, max_retries, loop_ret.reply)
            /\ UNCHANGED <<result, store, serial, cleared>>
    /\ UNCHANGED <<max_retries, entry, attempt, calls, pauses, replies, loop_ret,
                   gen_input>>
    /\ UNCHANGED <<orchVars, proc_calls, other_calls, found, parseVars, fnVars>>

\* One iteration of the loop of process_async (DiscoveryAgent,
\* ParamProcessorAgent): call, parse and validate are all inside the try.
ProcessAsyncAttempt(r) ==
    /\ pc = "loop"
    /\ IsAsync(entry)
    /\ InRange(attempt, max_retries)
    /\ calls' = calls + 1
    /\ request_calls' = request_calls + 1
    /\ replies' = Append(replies, r)
    /\ IF ParseOk(entry, r) /\ Validates(entry, r)
       THEN /\ loop_ret' = [attempt |-> attempt + 1, reply |-> r]
            /\ StageReturn([attempt |-> attempt + 1, reply |-> r])
            /\ UNCHANGED <<attempt, pauses, error>>
       ELSE IF LastAttempt(attempt, max_retries)
       THEN /\ pc' = "raised"
            /\ error' = Exhausted(entry, max_retries, r)
            /\ UNCHANGED <<attempt, pauses, loop_ret, result, store, serial, cleared>>
       ELSE /\ pauses' = pauses + 1
            /\ attempt' = attempt + 1
            /\ UNCHANGED <<pc, error, loop_ret, result, store, serial, cleared>>
    /\ UNCHANGED <<max_retries, entry, gen_input>>
    /\ UNCHANGED <<opc, invoked, outputs, artifact, orch_error, invocations>>
    /\ UNCHANGED <<proc_calls, other_calls, found, parseVars, fnVars>>

\* The range of process_async's loop is exhausted: process_async returns None.
ProcessAsyncFallThrough ==
    /\ pc = "loop"
    /\ IsAsync(entry)
    /\ ~InRange(attempt, max_retries)
    /\ loop_ret' = None
    /\ StageReturn(None)
    /\ UNCHANGED <<max_retries, entry, attempt, calls, pauses, replies, error,
                   gen_input>>
    /\ UNCHANGED <<orchVars, proc_calls, other_calls, found, parseVars, fnVars>>

\* A stage entry point, were its loop to count its attempts from -1
EnterStageFromMinusOne(e, g) ==
    /\ entry' = e
    /\ gen_input' = g
    /\ pc' = "loop"
    /\ attempt' = -1
    /\ calls' = 0
    /\ pauses' = 0
    /\ replies' = <<>>
    /\ loop_ret' = None
    /\ result' = None
    /\ error' = NoError

\* A stage entry point is entered with the input g
EnterStage(e, g) ==
    /\ entry' = e
    /\ gen_input' = g
    /\ pc' = "loop"
    /\ attempt' = 0
    /\ calls' = 0
    /\ pauses' = 0
    /\ replies' = <<>>
    /\ loop_ret' = None
    /\ result' = None
    /\ error' = NoError

\* A caller other than the orchestrator invokes a stage entry point
InvokeStage(e, g) ==
    /\ opc # "running"
    /\ pc \in {"idle", "returned", "raised"}
    /\ invocations < MaxInvocations
    /\ (e = "codegen") = (g # NoInput)
    /\ invocations' = invocations + 1
    /\ request_calls' = 0
    /\ EnterStage(e, g)
    /\ opc' = "idle"
    /\ invoked' = <<>>
    /\ outputs' = <<>>
    /\ artifact' = None
    /\ orch_error' = NoFailure
    /\ UNCHANGED max_retries
    /\ UNCHANGED <<memVars, parseVars, fnVars>>

----------------------------------------------------------------------------
(* QuantumOrchestrator.generate_quantum_code *)

StageIndex(e) == CHOOSE i \in 1..Len(StageOrder) : StageOrder[i] = e

\* The stage generate_quantum_code calls after stage e returned
NextStageSkipsOne(e) ==
    IF StageIndex(e) + 2 <= Len(StageOrder)
    THEN StageOrder[StageIndex(e) + 2]
    ELSE StageOrder[Len(StageOrder)]
NextStage(e) == StageOrder[StageIndex(e) + 1]

\* Between two stages the orchestrator reads param_map.get(...) and
\* pipeline_plan.get(...): a plan that is a JSON array passes
\* _validate_pipeline_plan and has no get.
GlueRaises(e, res) == e = "pipeline" /\ res.reply = "array_record"

GlueError(e, m, res) ==
    [kind |-> "glue", agent |-> "QuantumOrchestrator", retries |-> {}, last |-> res.reply]

\* generate_quantum_code is called: it calls SemanticAgent.process first
GenerateQuantumCode ==
    /\ opc # "running"
    /\ pc \in {"idle", "returned", "raised"}
    /\ invocations < MaxInvocations
    /\ invocations' = invocations + 1
    /\ request_calls' = 0
    /\ opc' = "running"
    /\ invoked' = <<StageOrder[1]>>
    /\ outputs' = <<>>
    /\ artifact' = None
    /\ orch_error' = NoFailure
    /\ EnterStage(StageOrder[1], NoInput)
    /\ UNCHANGED max_retries
    /\ UNCHANGED <<memVars, parseVars, fnVars>>

\* The stage generate_quantum_code called has returned: the last stage's
\* return value is the request's, any other is handed to the next stage.
OrchStageReturned ==
    /\ opc = "running"
    /\ pc = "returned"
    /\ outputs' = Append(outputs, result.reply)
    /\ IF entry = StageOrder[Len(StageOrder)]
       THEN /\ opc' = "returned"
            /\ artifact' = result
            /\ UNCHANGED <<invoked, orch_error, stageVars>>
       ELSE IF GlueRaises(entry, result)
       THEN /\ opc' = "raised"
            /\ orch_error' = [stage |-> "None",
                              cause |-> GlueError(entry, max_retries, result)]
            /\ UNCHANGED <<invoked, artifact, stageVars>>
       ELSE /\ invoked' = Append(invoked, NextStage(entry))
            /\ \E g \in GenInputs \cup {NoInput} :
                 /\ (NextStage(entry) = "codegen") = (g # NoInput)
                 /\ EnterStage(NextStage(entry), g)
            /\ UNCHANGED <<opc, artifact, orch_error, max_retries>>
    /\ UNCHANGED <<invocations, request_calls, memVars, parseVars, fnVars>>

\* The stage generate_quantum_code called has raised: the except clause wraps
\* the error and raises it; nothing is returned.
OrchStageRaisedPartial ==
    /\ opc = "running"
    /\ pc = "raised"
    /\ opc' = "returned"
    /\ artifact' = [attempt |-> 0, reply |-> IF outputs = <<>> THEN "None"
                                                ELSE outputs[Len(outputs)]]
    /\ UNCHANGED <<invoked, outputs, orch_error, invocations, request_calls>>
    /\ UNCHANGED <<stageVars, memVars, parseVars, fnVars>>
OrchStageRaised ==
    /\ opc = "running"
    /\ pc = "raised"
    /\ opc' = "raised"
    /\ orch_error' = [stage |-> AgentName(entry), cause |-> error]
    /\ UNCHANGED <<invoked, outputs, artifact, invocations, request_calls>>
    /\ UNCHANGED <<stageVars, memVars, parseVars, fnVars>>

----------------------------------------------------------------------------
(* Specification of the stages and the orchestrator *)

StartState ==
    /\ entry = "None"
    /\ pc = "idle"
    /\ attempt = 0
    /\ calls = 0
    /\ pauses = 0
    /\ replies = <<>>
    /\ loop_ret = None
    /\ result = None
    /\ error = NoError
    /\ gen_input = NoInput
    /\ opc = "idle"
    /\ invoked = <<>>
    /\ outputs = <<>>
    /\ artifact = None
    /\ orch_error = NoFailure
    /\ invocations = 0
    /\ request_calls = 0
    /\ store = EmptyStore
    /\ cleared = FALSE
    /\ proc_calls = 0
    /\ serial = 0
    /\ other_calls = 0
    /\ found = Absent
    /\ parsed = NotParsed

Init ==
    /\ max_retries \in 0..MaxRetriesBound
    /\ StartState
    /\ NoCall
    /\ response = EmptyText

Next ==
    \/ \E e \in StageEntries, g \in GenInputs \cup {NoInput} : InvokeStage(e, g)
    \/ \E r \in Replies : CallWithRetryAttempt(r)
    \/ CallWithRetryFallThrough
    \/ Validate
    \/ \E r \in Replies : ProcessAsyncAttempt(r)
    \/ ProcessAsyncFallThrough
    \/ GenerateQuantumCode
    \/ OrchStageReturned
    \/ OrchStageRaised

Spec == Init /\ [][Next]_vars

\* A step of a running request: every external call returns or raises, and the
\* interpreter runs the statement that follows the one it has executed.
RequestStep ==
    \/ \E r \in Replies : CallWithRetryAttempt(r)
    \/ CallWithRetryFallThrough
    \/ Validate
    \/ OrchStageReturned
    \/ OrchStageRaised

\* The requests alone: no other caller invokes a stage
NextRequest ==
    \/ GenerateQuantumCode
    \/ RequestStep

InitRequest ==
    /\ max_retries \in 0..MaxRequestRetries
    /\ StartState
    /\ NoCall
    /\ response = EmptyText

SpecLive == InitRequest /\ [][NextRequest]_vars /\ WF_vars(RequestStep)

----------------------------------------------------------------------------
(* Operations on the AgentMemory *)

\* Effect of any record operation on the bookkeeping of the store
Recorded ==
    /\ serial' = serial + 1
    /\ cleared' = FALSE
    /\ UNCHANGED <<found, stageVars, orchVars, parseVars, fnVars>>

RecordSuccessCase(agent_type, input_data, output_data) ==
    /\ store' = record_success_case(store, agent_type, input_data, output_data)
    /\ other_calls' = other_calls + 1
    /\ UNCHANGED proc_calls
    /\ Recorded

RecordParamCompletion(query, components, original_params, completed_params) ==
    /\ store' = record_param_completion(store, query, components, original_params,
                                        completed_params)
    /\ other_calls' = other_calls + 1
    /\ UNCHANGED proc_calls
    /\ Recorded

RecordParamNormalization(task_card, param_map) ==
    /\ store' = record_param_normalization(store, task_card, param_map)
    /\ other_calls' = other_calls + 1
    /\ UNCHANGED proc_calls
    /\ Recorded

RecordComponentSuccess(task_card, components) ==
    /\ store' = record_component_success(store, task_card, components)
    /\ other_calls' = other_calls + 1
    /\ UNCHANGED proc_calls
    /\ Recorded

RecordMissingParams(missing_params, components, context) ==
    /\ store' = record_missing_params(store, missing_params, components, context)
    /\ other_calls' = other_calls + 1
    /\ UNCHANGED proc_calls
    /\ Recorded

RecordParamProcessing(query, components, original_params, processed_result) ==
    /\ store' = record_param_processing(store, query, components, original_params,
                                        processed_result)
    /\ proc_calls' = proc_calls + 1
    /\ UNCHANGED other_calls
    /\ Recorded

\* AgentMemory.clear (QuantumOrchestrator.clear_session_memory calls it)
Clear ==
    /\ store' = clear(store)
    /\ cleared' = TRUE
    /\ proc_calls' = 0
    /\ other_calls' = 0
    /\ UNCHANGED <<serial, found, stageVars, orchVars, parseVars, fnVars>>

\* A find operation returned (or raised) the outcome f
Finds(f) ==
    /\ found' = f
    /\ UNCHANGED <<store, cleared, proc_calls, serial, other_calls>>
    /\ UNCHANGED <<stageVars, orchVars, parseVars, fnVars>>

FindSimilarCase(agent_type, input_data) ==
    Finds(find_similar_case(store, agent_type, input_data))

FindParamCompletionPattern(query, components) ==
    Finds(find_param_completion_pattern(store, query, components))

FindParamProcessingPattern(query, components) ==
    Finds(find_param_processing_pattern(store, query, components))

FindParamNormalizationPattern(task_card) ==
    Finds(find_param_normalization_pattern(store, task_card))

InitMem ==
    /\ max_retries = DefaultMaxRetries
    /\ StartState
    /\ NoCall
    /\ response = EmptyText

----------------------------------------------------------------------------
(* Specification of the store filled by record_param_processing *)

\* The parameters of the n-th record operation of a behaviour: every call
\* is given parameters of its own
SerialParams(n) == {<<"n", n>>}
SerialQuery == {"spin"}
SerialComponents == <<Hcomp, Acomp>>
SerialResult == [normalized_params |-> {<<"n", 8>>}, aliases |-> {}]

RecordParamProcessingSerial ==
    /\ serial < MaxProcessing
    /\ RecordParamProcessing(SerialQuery, SerialComponents, SerialParams(serial + 1),
                             SerialResult)

NextFifo ==
    \/ RecordParamProcessingSerial
    \/ Clear
    \/ \E q \in MemQueries, c \in MemComponents : FindParamCompletionPattern(q, c)

SpecFifo == InitMem /\ [][NextFifo]_vars

----------------------------------------------------------------------------
(* Specification of the store under every record operation, filled deep *)

SerialTaskCard == [domain |-> "spin.tfim", algorithm |-> "vqe",
                   params |-> SerialParams(0)]

NextRecord ==
    \/ RecordParamProcessingSerial
    \/ /\ serial < MaxProcessing
       /\ other_calls < MaxUnbounded
       /\ \E t \in AgentTypes : RecordSuccessCase(t, SerialTaskCard, MemOutput)
    \/ /\ serial < MaxProcessing
       /\ other_calls < MaxUnbounded
       /\ RecordParamCompletion(SerialQuery, SerialComponents, SerialParams(0),
                                SerialResult.normalized_params)
    \/ /\ serial < MaxProcessing
       /\ other_calls < MaxUnbounded
       /\ RecordParamNormalization(SerialTaskCard, SerialResult)

SpecRecord == InitMem /\ [][NextRecord]_vars

----------------------------------------------------------------------------
(* Specification of the store under freely chosen inputs *)

NextMem ==
    \/ /\ serial < MaxMemOps
       /\ \E t \in AgentTypes, i \in MemTaskCards : RecordSuccessCase(t, i, MemOutput)
    \/ /\ serial < MaxMemOps
       /\ \E q \in MemQueries, c \in MemComponents, d \in MemDicts :
             RecordParamCompletion(q, c, {}, d)
    \/ /\ serial < MaxMemOps
       /\ \E t \in MemTaskCards, m \in MemParamMaps : RecordParamNormalization(t, m)
    \/ /\ serial < MaxMemOps
       /\ \E t \in MemTaskCards, c \in MemComponents : RecordComponentSuccess(t, c)
    \/ /\ serial < MaxMemOps
       /\ \E c \in MemComponents : RecordMissingParams(<<"n">>, c, "")
    \/ /\ serial < MaxMemOps
       /\ \E q \in MemQueries, c \in MemComponents, m \in MemParamMaps :
             RecordParamProcessing(q, c, {}, m)
    \/ Clear
    \/ \E t \in AgentTypes, i \in MemTaskCards : FindSimilarCase(t, i)
    \/ \E q \in MemQueries, c \in MemComponents : FindParamCompletionPattern(q, c)
    \/ \E q \in MemQueries, c \in MemComponents : FindParamProcessingPattern(q, c)
    \/ \E t \in MemTaskCards : FindParamNormalizationPattern(t)

SpecMem == InitMem /\ [][NextMem]_vars

----------------------------------------------------------------------------
(* Specification of the response parser *)

TokenSeqs == UNION {[1..n -> Tokens] : n \in 0..MaxTokens}

RECURSIVE SumTo(_, _)
SumTo(f, k) == IF k = 0 THEN 0 ELSE f[k] + SumTo(f, k - 1)

\* The ways to cut n tokens into lines: the length of each line
Cuts(n) == UNION {{f \in [1..l -> 0..n] : SumTo(f, l) = n} : l \in 1..MaxLines}

\* The text of the tokens ts cut into lines of the lengths cut
TextOf(ts, cut) ==
    [i \in 1..Len(cut) |-> SubSeq(ts, SumTo(cut, i - 1) + 1, SumTo(cut, i))]

InitParse ==
    /\ max_retries = DefaultMaxRetries
    /\ StartState
    /\ NoCall
    /\ \E ts \in TokenSeqs : \E cut \in Cuts(Len(ts)) :
          response = TextOf(ts, cut)

NextParse == ParseJsonWithRetry

SpecParse == InitParse /\ [][NextParse]_vars

----------------------------------------------------------------------------
(* Helper functions of the agents, called on their own *)

\* Outcomes of a helper function call
Returned(v) == [kind |-> "value", value |-> v]
Raised(exc) == [kind |-> "raised", exc |-> exc]

\* fn_name was called on fn_arg and ended with outcome
Applied(fn_name, outcome) ==
    /\ fn = "None"
    /\ fn' = fn_name
    /\ fn_ret' = outcome
    /\ UNCHANGED <<fn_arg, stageVars, orchVars, memVars, parseVars>>

\* The sequences of at most n elements of S
SeqsUpTo(S, n) == UNION {[1..k -> S] : k \in 0..n}

\* No element stands twice in seq
Distinct(seq) == \A i, j \in 1..Len(seq) : seq[i] = seq[j] => i = j

----------------------------------------------------------------------------
(* DiscoveryAgent._filter_relevant_components *)

\* A lower-cased string is read only by substring tests: it is modelled as the
\* set of keywords that occur in it; the empty keyword occurs in every string.
OccursNonEmpty(kw, words) == kw \in words
Occurs(kw, words) == kw = "" \/ kw \in words

\* kind.lower()
LowerKind(kind) == IF kind = "Core" THEN "core" ELSE kind

\* Registry entries: lower-cased name and tags as keyword sets, kind as written
Catalog ==
    { [name |-> {"backend", "estimator"}, kind |-> "backend", tags |-> {"estimator"}],
      [name |-> {"core", "utils"}, kind |-> "core", tags |-> {"core"}],
      [name |-> {"algo", "vqe"}, kind |-> "algorithm", tags |-> {"vqe"}],
      [name |-> {"algo", "qaoa"}, kind |-> "algorithm", tags |-> {"qaoa"}],
      [name |-> {"spin", "tfim", "hamiltonian"}, kind |-> "hamiltonian", tags |-> {"spin"}],
      [name |-> {"misc", "plot"}, kind |-> "visualization", tags |-> {}],
      [name |-> {"timer"}, kind |-> "Core", tags |-> {}] }

\* task_card, as far as the filter reads it: domain.split(".") and algorithm
FilterTaskCards ==
    [domain : {{"spin", "tfim"}, {"custom"}, {""}}, algorithm : {"vqe", "qaoa", ""}]

\* relevance_score of one component, in tenths
RelevanceScore(task_card, component) ==
    (IF \E kw \in task_card.domain :
           Occurs(kw, component.name) \/ Occurs(kw, component.tags)
     THEN 4 ELSE 0)
    + (IF Occurs(task_card.algorithm, component.name)
          \/ Occurs(task_card.algorithm, component.tags)
       THEN 3 ELSE 0)
    + (IF LowerKind(component.kind) \in {"hamiltonian", "ansatz", "optimizer", "algorithm"}
       THEN 2 ELSE 0)
    + (IF LowerKind(component.kind) \in {"core", "backend"} \/ "core" \in component.tags
       THEN 1 ELSE 0)

\* The threshold, were it 0.1
RelevantFromOneTenth(task_card, component) == RelevanceScore(task_card, component) >= 1

\* relevance_score >= 0.2, in tenths
Relevant(task_card, component) == RelevanceScore(task_card, component) >= 2

\* The kinds the fallback keeps, compared with the kind as written
FallbackKinds == {"core", "backend", "algorithm"}

\* The fallback runs when fewer than two components were kept
NeedsFallbackBelowTwo(filtered) == Len(filtered) < 2

\* if len(filtered_components) < 3
NeedsFallback(filtered) == Len(filtered) < 3

\* component in filtered_components
AlreadyKeptNever(filtered, component) == FALSE
AlreadyKept(filtered, component) == \E i \in 1..Len(filtered) : filtered[i] = component

RECURSIVE Fallback(_, _)
\* The fallback loop over the rest of registry_data
Fallback(filtered, rest) ==
    IF rest = <<>> THEN filtered
    ELSE IF Head(rest).kind \in FallbackKinds /\ ~AlreadyKept(filtered, Head(rest))
         THEN Fallback(Append(filtered, Head(rest)), Tail(rest))
         ELSE Fallback(filtered, Tail(rest))

filter_relevant_components(task_card, registry_data) ==
    LET filtered == SelectSeq(registry_data, LAMBDA c : Relevant(task_card, c))
    IN IF NeedsFallback(filtered) THEN Fallback(filtered, registry_data)
       ELSE filtered

FilterRelevantComponents ==
    Applied("_filter_relevant_components",
            Returned(filter_relevant_components(fn_arg.task_card, fn_arg.registry_data)))

InitFilter ==
    /\ max_retries = DefaultMaxRetries
    /\ StartState
    /\ response = EmptyText
    /\ fn = "None"
    /\ fn_ret = NotApplied
    /\ \E t \in FilterTaskCards :
          \E reg \in {r \in SeqsUpTo(Catalog, MaxCatalog) : Distinct(r)} :
             fn_arg = [task_card |-> t, registry_data |-> reg]

NextFilter == FilterRelevantComponents

SpecFilter == InitFilter /\ [][NextFilter]_vars

----------------------------------------------------------------------------
(* ParamProcessorAgent._compress_schema, DiscoveryAgent._compress_schema_for_llm *)

\* The keys of a parameter spec
SpecKeys == {"type", "default", "range", "options", "description", "format_rules"}

\* A parameter spec: a dict, as its set of (key, value) items, or a value that
\* is no dict
DictSpec(keys) == [is_dict |-> TRUE, items |-> {<<k, "v">> : k \in keys}]
ScalarSpec == [is_dict |-> FALSE, items |-> {<<"", "int">>}]
ParamSpecs == {DictSpec(keys) : keys \in SUBSET SpecKeys} \cup {ScalarSpec}

\* A params_schema, as its set of (param_name, param_spec) items over names
SchemasOver(names) ==
    UNION {{{<<n, f[n]>> : n \in present} : f \in [present -> ParamSpecs]} :
           present \in SUBSET names}

\* The kept keys, were options not among them
KeptKeysWithoutOptions == {"type", "default", "range"}

\* if key in ["type", "default", "range", "options"]
KeptKeys == {"type", "default", "range", "options"}

\* One key outside the kept ones is dropped by each compression
CompressSpecOneKey(param_spec) ==
    IF param_spec.is_dict
    THEN LET extra == {item \in param_spec.items : item[1] \notin KeptKeys}
         IN [is_dict |-> TRUE,
             items |-> IF extra = {} THEN param_spec.items
                       ELSE param_spec.items \ {CHOOSE item \in extra :
                                \A other \in extra : item[1] = "description"
                                                     \/ other[1] # "description"}]
    ELSE param_spec

\* The compressed spec of one parameter: a dict keeps its kept keys, any
\* other value stays as it is
CompressSpec(param_spec) ==
    IF param_spec.is_dict
    THEN [is_dict |-> TRUE,
          items |-> {item \in param_spec.items : item[1] \in KeptKeys}]
    ELSE param_spec

\* ParamProcessorAgent._compress_schema
compress_schema(schema) == {<<item[1], CompressSpec(item[2])>> : item \in schema}

\* A component, as _compress_schema_for_llm reads it: the other fields are
\* copied, params_schema may be missing
NoSchema == [has_schema |-> FALSE, params_schema |-> {}]
WithSchema(schema) == [has_schema |-> TRUE, params_schema |-> schema]
SchemaComponents ==
    {[name |-> "spin.TFIMHamiltonian", description |-> "text"] @@ s :
        s \in {NoSchema} \cup {WithSchema(schema) : schema \in SchemasOver({"n"})}}

\* DiscoveryAgent._compress_schema_for_llm
compress_schema_for_llm(components) ==
    [i \in 1..Len(components) |->
        IF components[i].has_schema
        THEN [components[i] EXCEPT !.params_schema = compress_schema(@)]
        ELSE components[i]]

\* ParamProcessorAgent._compress_components_for_llm: new dicts of name, kind
\* and the compressed component.get("params_schema", {})
compress_components_for_llm(components) ==
    [i \in 1..Len(components) |->
        [name |-> components[i].name, kind |-> "",
         params_schema |-> compress_schema(IF components[i].has_schema
                                           THEN components[i].params_schema
                                           ELSE {})]]

\* The helper function of a call and what it computes
Compressor(name, x) ==
    CASE name = "_compress_schema" -> compress_schema(x)
      [] name = "_compress_schema_for_llm" -> compress_schema_for_llm(x)
      [] name = "_compress_components_for_llm" -> compress_components_for_llm(x)

\* compressed_comp = component.copy() is a new dict: the assignment to
\* compressed_comp["params_schema"] is no assignment to component
AssignedIsComponent(component) == TRUE
CopyIsComponent(component) == FALSE

\* The argument of a compression after the call: the only assignment to an
\* existing dict is the one to compressed_comp["params_schema"]
ArgumentAfter(name, x) ==
    IF name = "_compress_schema_for_llm"
    THEN [i \in 1..Len(x) |->
            IF x[i].has_schema /\ CopyIsComponent(x[i])
            THEN [x[i] EXCEPT !.params_schema = compress_schema(@)]
            ELSE x[i]]
    ELSE x

Compressions ==
    {"_compress_schema", "_compress_schema_for_llm", "_compress_components_for_llm"}

\* A compression is called on its argument
Compress ==
    /\ fn = "None"
    /\ fn_arg.fn \in Compressions
    /\ fn' = fn_arg.fn
    /\ fn_ret' = Returned(Compressor(fn_arg.fn, fn_arg.x))
    /\ fn_arg' = [fn_arg EXCEPT !.x = ArgumentAfter(fn_arg.fn, fn_arg.x)]
    /\ UNCHANGED <<stageVars, orchVars, memVars, parseVars>>

\* The same compression is called on what it returned
CompressAgain ==
    /\ fn \in {"_compress_schema", "_compress_schema_for_llm"}
    /\ fn' = "again"
    /\ fn_arg' = [fn |-> fn, x |-> fn_ret.value]
    /\ fn_ret' = Returned(Compressor(fn, fn_ret.value))
    /\ UNCHANGED <<stageVars, orchVars, memVars, parseVars>>

InitCompress ==
    /\ max_retries = DefaultMaxRetries
    /\ StartState
    /\ response = EmptyText
    /\ fn = "None"
    /\ fn_ret = NotApplied
    /\ \/ \E schema \in SchemasOver({"n", "J"}) :
             fn_arg = [fn |-> "_compress_schema", x |-> schema]
       \/ \E components \in SeqsUpTo(SchemaComponents, MaxComponentList) :
             \E name \in {"_compress_schema_for_llm", "_compress_components_for_llm"} :
                fn_arg = [fn |-> name, x |-> components]

NextCompress == Compress \/ CompressAgain

SpecCompress == InitCompress /\ [][NextCompress]_vars

----------------------------------------------------------------------------
(* CodegenAgent._analyze_component_dependencies, _get_variable_name *)

\* Component names, and the substrings the classification looks for in them
BindNames == {"spin.TFIMHamiltonian", "spin.HeisenbergHamiltonian",
              "opt.COBYLAOptimizer", "circuit.TFIMAnsatz", "backend.Estimator",
              "algo.VQEAlgorithm", "algo.QAOAAlgorithm"}

Markers(name) ==
    CASE name \in {"spin.TFIMHamiltonian", "spin.HeisenbergHamiltonian"} -> {"Hamiltonian"}
      [] name = "opt.COBYLAOptimizer" -> {"Optimizer"}
      [] name = "circuit.TFIMAnsatz" -> {"Ansatz"}
      [] name = "backend.Estimator" -> {"Estimator"}
      [] name \in {"algo.VQEAlgorithm", "algo.QAOAAlgorithm"} -> {"Algorithm"}
      [] OTHER -> {}

\* The if / elif chain over the name of a component; "None" leaves the
\* component out of component_types
Classify(name) ==
    IF "Hamiltonian" \in Markers(name) THEN "hamiltonian"
    ELSE IF "Optimizer" \in Markers(name) THEN "optimizer"
    ELSE IF "Circuit" \in Markers(name) \/ "Ansatz" \in Markers(name) THEN "circuit"
    ELSE IF "Backend" \in Markers(name) \/ "Estimator" \in Markers(name) THEN "backend"
    ELSE IF "Algorithm" \in Markers(name) THEN "algorithm"
    ELSE "None"

\* component_types, for the set of the components' names
ComponentTypesOf(names) ==
    [name \in {n \in names : Classify(n) # "None"} |-> Classify(name)]

\* The variable of a component is the name of its type
get_variable_name_as_type(component_name, component_type) == component_type

\* _get_variable_name: type_mapping, every classified type is in it
get_variable_name(component_name, component_type) ==
    CASE component_type = "hamiltonian" -> "H"
      [] component_type = "optimizer" -> "optimizer"
      [] component_type = "circuit" -> "ansatz"
      [] component_type = "backend" -> "estimator"
      [] component_type = "algorithm" -> "algorithm"
      [] OTHER -> component_name

\* algo_deps, were the loop to stop at the algorithm itself
AlgoDepsBefore(algo_name, component_types, execution_order) ==
    LET stops == {i \in 1..Len(execution_order) : execution_order[i] = algo_name}
        before == IF stops = {} THEN execution_order
                  ELSE SubSeq(execution_order, 1, Least(stops) - 1)
        picked == SelectSeq(before, LAMBDA n : n \in DOMAIN component_types)
    IN [i \in 1..Len(picked) |->
           [name |-> picked[i], type |-> component_types[picked[i]],
            variable |-> get_variable_name(picked[i], component_types[picked[i]])]]

\* algo_deps: one entry for every name of execution_order that is classified
\* and is not the algorithm itself, wherever it stands in execution_order
AlgoDeps(algo_name, component_types, execution_order) ==
    LET picked == SelectSeq(execution_order,
                            LAMBDA n : n # algo_name /\ n \in DOMAIN component_types)
    IN [i \in 1..Len(picked) |->
           [name |-> picked[i], type |-> component_types[picked[i]],
            variable |-> get_variable_name(picked[i], component_types[picked[i]])]]

analyze_component_dependencies(names, execution_order) ==
    LET component_types == ComponentTypesOf(names)
        algorithm_components ==
            {n \in DOMAIN component_types : component_types[n] = "algorithm"}
    IN [component_types |-> component_types,
        algorithm_dependencies |->
            [algo_name \in algorithm_components |->
                [type |-> "algorithm",
                 requires |-> AlgoDeps(algo_name, component_types, execution_order)]],
        execution_order |-> execution_order]

AnalyzeComponentDependencies ==
    /\ fn_arg.fn = "_analyze_component_dependencies"
    /\ Applied("_analyze_component_dependencies",
               Returned(analyze_component_dependencies(fn_arg.components,
                                                       fn_arg.execution_order)))

\* components holds the names of execution_order, one of them possibly not
\* among the components
InitBind ==
    /\ max_retries = DefaultMaxRetries
    /\ StartState
    /\ response = EmptyText
    /\ fn = "None"
    /\ fn_ret = NotApplied
    /\ \E order \in {o \in SeqsUpTo(BindNames, MaxOrder) : Distinct(o)} :
          \E left_out \in SetOf(order) \cup {"None"} :
             fn_arg = [fn |-> "_analyze_component_dependencies",
                       components |-> SetOf(order) \ {left_out},
                       execution_order |-> order]

NextBind == AnalyzeComponentDependencies

SpecBind == InitBind /\ [][NextBind]_vars

----------------------------------------------------------------------------
(* PipelineAgent.process after the retry loop, and the hand-over to assembly *)

PlanNames == {"spin.TFIMHamiltonian", "circuit.TFIMAnsatz", "algo.VQEAlgorithm"}
PlanFields == {"execution_order", "dependency_graph", "conflicts"}

\* The decoded replies of the planning stage: the set of keys present, the
\* execution_order and the dependency_graph as its set of
\* (name, prerequisite) pairs
Plans ==
    [fields : SUBSET PlanFields,
     execution_order : {o \in SeqsUpTo(PlanNames, MaxOrder) : Distinct(o)},
     dependency_graph : SUBSET {e \in PlanNames \X PlanNames : e[1] # e[2]}]

\* _validate_pipeline_plan: the three fields are present
validate_pipeline_plan(data) == \A field \in PlanFields : field \in data.fields

\* The rest of PipelineAgent.process once _call_with_retry returned data
PipelineProcess ==
    /\ fn_arg.fn = "PipelineAgent.process"
    /\ Applied("PipelineAgent.process",
               IF validate_pipeline_plan(fn_arg.data) THEN Returned(fn_arg.data)
               ELSE Raised("RuntimeError"))

\* generate_quantum_code hands the plan that PipelineAgent.process returned
\* to CodegenAgent.process
HandToAssembly ==
    /\ fn = "PipelineAgent.process"
    /\ fn_ret.kind = "value"
    /\ fn' = "CodegenAgent.process"
    /\ fn_arg' = [fn |-> "CodegenAgent.process", pipeline_plan |-> fn_ret.value]
    /\ fn_ret' = NotApplied
    /\ UNCHANGED <<stageVars, orchVars, memVars, parseVars>>

InitPlan ==
    /\ max_retries = DefaultMaxRetries
    /\ StartState
    /\ response = EmptyText
    /\ fn = "None"
    /\ fn_ret = NotApplied
    /\ \E data \in Plans : fn_arg = [fn |-> "PipelineAgent.process", data |-> data]

NextPlan == PipelineProcess \/ HandToAssembly

SpecPlan == InitPlan /\ [][NextPlan]_vars

----------------------------------------------------------------------------
(* ParamProcessorAgent.process after the retry loop, _validate_param_map *)

ParamNames == {"n", "J"}

\* A parameter spec, as _validate_param_map reads it: whether it is a dict and
\* what its default key holds ("missing", "None" or a value)
SchemaSpecs ==
    {[is_dict |-> TRUE, default |-> d] : d \in {"missing", "None", "4"}}
        \cup {[is_dict |-> FALSE, default |-> "missing"]}

\* The params_schema of a component: a function from its parameter names
ParamSchemas == UNION {[names -> SchemaSpecs] : names \in SUBSET ParamNames}

RECURSIVE RequiredSchema(_)
\* required_schema: update() with the params_schema of each component in
\* turn, a later spec replacing an earlier one of the same name
RequiredSchema(schemas) ==
    IF schemas = <<>> THEN <<>>
    ELSE LET last == schemas[Len(schemas)]
             before == RequiredSchema(SubSeq(schemas, 1, Len(schemas) - 1))
         IN [n \in DOMAIN before \cup DOMAIN last |->
                IF n \in DOMAIN last THEN last[n] ELSE before[n]]

\* required_fields of _validate_param_map, in order
ParamMapFields == <<"normalized_params", "aliases", "defaults", "validation_errors">>

\* The decoded replies of the parameter stage: the keys present (at most one of
\* the required ones left out) and the names in normalized_params
ParamMapReplies ==
    [fields : {SetOf(ParamMapFields) \ left_out :
                  left_out \in {{}} \cup {{f} : f \in SetOf(ParamMapFields)}},
     normalized_params : SUBSET ParamNames]

\* isinstance(param_spec, dict) and param_spec.get("default") is not None
HasDefault(param_spec) == param_spec.is_dict /\ param_spec.default \notin {"missing", "None"}

\* Only the presence of the required fields is validated
validate_param_map_fields_only(data, required_schema) ==
    LET absent == {i \in 1..Len(ParamMapFields) : ParamMapFields[i] \notin data.fields}
    IN IF absent # {}
       THEN [valid |-> FALSE, missing |-> {<<"Missing field", ParamMapFields[Least(absent)]>>}]
       ELSE [valid |-> TRUE, missing |-> {}]

\* _validate_param_map; missing holds ("param", name) for a parameter name and
\* ("Missing field", field) for the text "Missing field: field"
validate_param_map(data, required_schema) ==
    LET absent == {i \in 1..Len(ParamMapFields) : ParamMapFields[i] \notin data.fields}
        missing_params == {n \in DOMAIN required_schema :
                              n \notin data.normalized_params
                              /\ ~HasDefault(required_schema[n])}
    IN IF absent # {}
       THEN [valid |-> FALSE, missing |-> {<<"Missing field", ParamMapFields[Least(absent)]>>}]
       ELSE [valid |-> missing_params = {},
             missing |-> {<<"param", n>> : n \in missing_params}]

\* The stage failed: RuntimeError around the ValueError that names missing
ValidationRaised(validation_result) ==
    [kind |-> "raised", exc |-> "RuntimeError", validation |-> validation_result]

\* The rest of ParamProcessorAgent.process once _call_with_retry returned data
ParamProcess ==
    /\ fn_arg.fn = "ParamProcessorAgent.process"
    /\ LET validation_result ==
              validate_param_map(fn_arg.data, RequiredSchema(fn_arg.schemas))
       IN Applied("ParamProcessorAgent.process",
                  IF validation_result.valid THEN Returned(fn_arg.data)
                  ELSE ValidationRaised(validation_result))

InitParam ==
    /\ max_retries = DefaultMaxRetries
    /\ StartState
    /\ response = EmptyText
    /\ fn = "None"
    /\ fn_ret = NotApplied
    /\ \E data \in ParamMapReplies :
          \E schemas \in SeqsUpTo(ParamSchemas, MaxComponentList) :
             fn_arg = [fn |-> "ParamProcessorAgent.process", data |-> data,
                       schemas |-> schemas]

NextParam == ParamProcess

SpecParam == InitParam /\ [][NextParam]_vars

----------------------------------------------------------------------------
(* SemanticAgent.process after the retry loop, _validate_task_card *)

\* required_fields of _validate_task_card
TaskCardFields == {"domain", "problem", "algorithm", "backend", "params"}

\* valid_domains
ValidDomains == {"spin", "spin.tfim", "spin.heisenberg", "spin.ising",
                 "chemistry.molecular", "optimization", "custom"}

\* The decoded replies of the intent stage: a dict or a list, the keys (for a
\* list, the strings) it holds, and the values of domain and backend; a domain
\* that is a list is not hashable
TaskCardReplies ==
    [shape : {"dict", "list"},
     fields : SUBSET TaskCardFields,
     domain : {"spin.tfim", "custom", "qml", "None", "unhashable list"},
     backend : {"qiskit", "cirq"}]

\* Only the presence of the required fields is validated
validate_task_card_fields_only(data) ==
    IF \E field \in TaskCardFields : field \notin data.fields THEN "False"
    ELSE IF data.shape = "list" THEN "TypeError"
    ELSE "True"

\* _validate_task_card: "True", "False", or the TypeError of indexing a list
\* with a key or of looking an unhashable value up in a set
validate_task_card(data) ==
    IF \E field \in TaskCardFields : field \notin data.fields THEN "False"
    ELSE IF data.shape = "list" THEN "TypeError"
    ELSE IF data.domain = "unhashable list" THEN "TypeError"
    ELSE IF data.domain \notin ValidDomains THEN "False"
    ELSE IF data.backend # "qiskit" THEN "False"
    ELSE "True"

\* The rest of SemanticAgent.process once _call_with_retry returned data:
\* a False and an exception both leave it as a RuntimeError
SemanticProcess ==
    /\ fn_arg.fn = "SemanticAgent.process"
    /\ Applied("SemanticAgent.process",
               IF validate_task_card(fn_arg.data) = "True" THEN Returned(fn_arg.data)
               ELSE Raised("RuntimeError"))

\* generate_quantum_code hands the task_card that SemanticAgent.process
\* returned to the discovery stage and to the parameter stage
HandToDiscovery ==
    /\ fn = "SemanticAgent.process"
    /\ fn_ret.kind = "value"
    /\ \E stage \in {"DiscoveryAgent.process", "ParamProcessorAgent.process"} :
          /\ fn' = stage
          /\ fn_arg' = [fn |-> "handed over", task_card |-> fn_ret.value]
    /\ fn_ret' = NotApplied
    /\ UNCHANGED <<stageVars, orchVars, memVars, parseVars>>

InitIntent ==
    /\ max_retries = DefaultMaxRetries
    /\ StartState
    /\ response = EmptyText
    /\ fn = "None"
    /\ fn_ret = NotApplied
    /\ \E data \in TaskCardReplies :
          fn_arg = [fn |-> "SemanticAgent.process", data |-> data]

NextIntent == SemanticProcess \/ HandToDiscovery

SpecIntent == InitIntent /\ [][NextIntent]_vars

----------------------------------------------------------------------------
(* QuantumOrchestrator.generate_quantum_code_parallel *)

ParallelStages == {"semantic", "discovery", "param", "pipeline", "codegen"}

\* The task cards the intent stage can return
ParallelTaskCards == {"spin.tfim", "custom"}

\* The frame of a running call: the local names bound so far, the task card
\* and the coroutines created, each with the task card it was created with
Frame(task_card, bound, coroutines) ==
    [kind |-> "running", task_card |-> task_card, bound |-> bound,
     coroutines |-> coroutines]

\* The except clause: RuntimeError around the text of the exception cause,
\* after the stages in invoked were called and the tasks in settled ran to
\* their end
ParallelRaised(cause, stages_invoked, settled) ==
    [kind |-> "raised", exc |-> "RuntimeError", cause |-> cause,
     invoked |-> stages_invoked, settled |-> settled]

\* task_card = self.semantic_agent.process(query); an exception of the stage
\* reaches the except clause, which raises RuntimeError
ParallelSemantic ==
    /\ fn = "None"
    /\ fn_arg.fn = "generate_quantum_code_parallel"
    /\ IF fn_arg.stages["semantic"] = "raises"
       THEN /\ fn' = "generate_quantum_code_parallel"
            /\ fn_ret' = ParallelRaised("SemanticAgent", {"semantic"}, {})
       ELSE /\ fn' = "discovery_task"
            /\ fn_ret' = Frame(fn_arg.task_card, {"task_card"}, {})
    /\ UNCHANGED <<fn_arg, stageVars, orchVars, memVars, parseVars>>

\* discovery_task = self.discovery_agent.process_async(task_card, registry_data)
\* creates the coroutine; nothing runs it yet
ParallelDiscoveryTask ==
    /\ fn = "discovery_task"
    /\ fn' = "param_map_task"
    /\ fn_ret' = Frame(fn_ret.task_card, fn_ret.bound \cup {"discovery_task"},
                       fn_ret.coroutines
                          \cup {[stage |-> "discovery", task_card |-> fn_ret.task_card]})
    /\ UNCHANGED <<fn_arg, stageVars, orchVars, memVars, parseVars>>

\* param_map_task = self.param_processor_agent.process_async(query, task_card,
\* components): components is a local name that is assigned only by the later
\* gather statement, so reading it raises UnboundLocalError, which the except
\* clause raises again as RuntimeError. The statements after this one
\* (gather, planning, assembly, return) are reached only if it does not raise.
ParallelParamTask ==
    /\ fn = "param_map_task"
    /\ IF "components" \in fn_ret.bound
       THEN /\ fn' = "gather"
            /\ fn_ret' = Frame(fn_ret.task_card, fn_ret.bound \cup {"param_map_task"},
                               fn_ret.coroutines
                                  \cup {[stage |-> "param", task_card |-> fn_ret.task_card]})
       ELSE /\ fn' = "generate_quantum_code_parallel"
            /\ fn_ret' = ParallelRaised("UnboundLocalError", {"semantic"}, {})
    /\ UNCHANGED <<fn_arg, stageVars, orchVars, memVars, parseVars>>

InitParallel ==
    /\ max_retries = DefaultMaxRetries
    /\ StartState
    /\ response = EmptyText
    /\ fn = "None"
    /\ fn_ret = NotApplied
    /\ \E stages \in [ParallelStages -> {"returns", "raises"}] :
          \E task_card \in ParallelTaskCards :
             fn_arg = [fn |-> "generate_quantum_code_parallel", stages |-> stages,
                       task_card |-> task_card]

NextParallel == ParallelSemantic \/ ParallelDiscoveryTask \/ ParallelParamTask

SpecParallel == InitParallel /\ [][NextParallel]_vars

----------------------------------------------------------------------------
(* CodegenAgent.process against two contents of the AgentMemory *)

\* The replies the external model gives to the calls of one request, in order
CodegenReplies == {"api_error", "empty", "good_record"}
ReplySeqs(m) == [1..m -> CodegenReplies]

\* The AgentMemory after the successes of earlier requests were recorded
RECURSIVE GenerationsRecorded(_, _)
GenerationsRecorded(st, gs) ==
    IF gs = <<>> THEN st
    ELSE GenerationsRecorded(
             RecordSuccess(st, "codegen", CodegenRecordKey(Head(gs)),
                           [code |-> "good_record"]),
             Tail(gs))

GenerationStores ==
    {GenerationsRecorded(EmptyStore, gs) : gs \in SeqsUpTo(GenInputs, MaxMemOps)}

\* CodegenAgent._call_with_retry from attempt a on: what it returns or raises
\* and the number of external calls made
RECURSIVE CodegenCallWithRetry(_, _, _)
CodegenCallWithRetry(rs, m, a) ==
    IF ~InRange(a, m) THEN [ret |-> Returned("None"), calls |-> a]
    ELSE IF ParseOk("codegen", rs[a + 1])
    THEN [ret |-> Returned(rs[a + 1]), calls |-> a + 1]
    ELSE IF LastAttempt(a, m) THEN [ret |-> Raised("RuntimeError"), calls |-> a + 1]
    ELSE CodegenCallWithRetry(rs, m, a + 1)

\* if similar_case: print(...) -- a hit is reported and nothing else
ReturnsSimilarCaseOnHit(similar_case) == similar_case # Absent
ReturnsSimilarCase(similar_case) == FALSE

\* CodegenAgent.process: the lookup, the retry loop, the check of the result
\* and the record of a success
CodegenProcess(st, g, rs, m) ==
    LET similar_case == find_similar_case(st, "CodegenAgent", CodegenLookupKey(g))
        loop == CodegenCallWithRetry(rs, m, 0)
    IN IF similar_case = KeyError
       THEN [ret |-> Raised("KeyError"), calls |-> 0, store |-> st]
       ELSE IF ReturnsSimilarCase(similar_case)
       THEN [ret |-> Returned(similar_case.value.code), calls |-> 0, store |-> st]
       ELSE IF loop.ret.kind = "value" /\ Validates("codegen", loop.ret.value)
       THEN [ret |-> loop.ret, calls |-> loop.calls,
             store |-> RecordSuccess(st, "codegen", CodegenRecordKey(g),
                                     [code |-> loop.ret.value])]
       ELSE [ret |-> Raised("RuntimeError"), calls |-> loop.calls, store |-> st]

\* The same request, with the same replies, against each of the two memories
CodegenProcessOnBoth ==
    /\ fn_arg.fn = "CodegenAgent.process"
    /\ \E rs \in ReplySeqs(max_retries) :
          Applied("CodegenAgent.process",
                  [replies |-> rs,
                   left |-> CodegenProcess(fn_arg.left, fn_arg.input, rs, max_retries),
                   right |-> CodegenProcess(fn_arg.right, fn_arg.input, rs, max_retries)])

InitLookup ==
    /\ max_retries = DefaultMaxRetries
    /\ StartState
    /\ response = EmptyText
    /\ fn = "None"
    /\ fn_ret = NotApplied
    /\ \E left \in GenerationStores, right \in GenerationStores, g \in GenInputs :
          fn_arg = [fn |-> "CodegenAgent.process", left |-> left, right |-> right,
                    input |-> g]

NextLookup == CodegenProcessOnBoth

SpecLookup == InitLookup /\ [][NextLookup]_vars

----------------------------------------------------------------------------
(* record_param_processing statement by statement, under concurrent callers *)

\* AgentMemory holds no lock: between two statements of one call another
\* caller's statement, or a whole find, can run.
Writers == {"w1", "w2"}

\* fn_arg.at[w] is the statement writer w executes next, fn_arg.stamp[w] the
\* serial number of its call
RaceFrame(at, stamp) == [fn |-> "record_param_processing", at |-> at, stamp |-> stamp]

\* A call made while no other call is in progress
RecordAlone ==
    /\ \A w \in Writers : fn_arg.at[w] = "idle"
    /\ RecordParamProcessingSerial

\* record_param_processing is entered: the two records are built
RaceEnter(w) ==
    /\ fn_arg.at[w] = "idle"
    /\ serial < MaxProcessing
    /\ serial' = serial + 1
    /\ fn_arg' = RaceFrame([fn_arg.at EXCEPT ![w] = "append_completions"],
                           [fn_arg.stamp EXCEPT ![w] = serial + 1])
    /\ UNCHANGED <<store, cleared, proc_calls, other_calls, found, fn, fn_ret>>
    /\ UNCHANGED <<stageVars, orchVars, parseVars>>

RaceStep(w, next_at, next_store) ==
    /\ store' = next_store
    /\ fn_arg' = RaceFrame([fn_arg.at EXCEPT ![w] = next_at], fn_arg.stamp)
    /\ UNCHANGED <<cleared, proc_calls, serial, other_calls, found, fn, fn_ret>>
    /\ UNCHANGED <<stageVars, orchVars, parseVars>>

\* self.param_completions.append(completion_record)
RaceAppendCompletion(w) ==
    /\ fn_arg.at[w] = "append_completions"
    /\ RaceStep(w, "append_normalizations",
                [store EXCEPT !.param_completions =
                    Append(@, CompletionRecord(SerialQuery, SerialComponents,
                                               SerialParams(fn_arg.stamp[w]),
                                               SerialResult))])

\* self.param_normalizations.append(normalization_record)
RaceAppendNormalization(w) ==
    /\ fn_arg.at[w] = "append_normalizations"
    /\ RaceStep(w, "trim_completions",
                [store EXCEPT !.param_normalizations =
                    Append(@, NormalizationRecord(SerialQuery, SerialComponents,
                                                  SerialParams(fn_arg.stamp[w]),
                                                  SerialResult))])

\* if len(self.param_completions) > 50: self.param_completions.pop(0)
RaceTrimCompletions(w) ==
    /\ fn_arg.at[w] = "trim_completions"
    /\ RaceStep(w, "trim_normalizations",
                [store EXCEPT !.param_completions = Trim(@)])

\* if len(self.param_normalizations) > 50: self.param_normalizations.pop(0)
RaceTrimNormalizations(w) ==
    /\ fn_arg.at[w] = "trim_normalizations"
    /\ RaceStep(w, "returned", [store EXCEPT !.param_normalizations = Trim(@)])

\* The number of patterns the loop of find_param_completion_pattern visits
Visited(st, query, components) ==
    LET list == st.param_completions
        hits == {i \in 1..Len(list) :
                   /\ list[i].query_type = ExtractQueryType(query)
                   /\ SetOf(list[i].component_types) = SetOf(ComponentTypes(components))}
    IN IF hits = {} THEN Len(list) ELSE Least(hits)

\* A whole find_param_completion_pattern call runs between two statements
RaceFind(query, components) ==
    /\ found' = find_param_completion_pattern(store, query, components)
    /\ fn' = "find_param_completion_pattern"
    /\ fn_ret' = [kind |-> "observed", visited |-> Visited(store, query, components)]
    /\ UNCHANGED <<store, cleared, proc_calls, serial, other_calls, fn_arg>>
    /\ UNCHANGED <<stageVars, orchVars, parseVars>>

InitRace ==
    /\ max_retries = DefaultMaxRetries
    /\ StartState
    /\ response = EmptyText
    /\ fn = "None"
    /\ fn_ret = NotApplied
    /\ fn_arg = RaceFrame([w \in Writers |-> "idle"], [w \in Writers |-> 0])

NextRace ==
    \/ RecordAlone
    \/ \E w \in Writers : RaceEnter(w)
    \/ \E w \in Writers : RaceAppendCompletion(w)
    \/ \E w \in Writers : RaceAppendNormalization(w)
    \/ \E w \in Writers : RaceTrimCompletions(w)
    \/ \E w \in Writers : RaceTrimNormalizations(w)
    \/ \E q \in MemQueries : RaceFind(q, SerialComponents)

SpecRace == InitRace /\ [][NextRace]_vars

----------------------------------------------------------------------------
(* CodegenAgent._post_process_with_helpers *)

\* A line of the generated source, as far as the splice reads it:
\*   import        an import or from statement on one line
\*   import_open   the first line of a parenthesised import over several lines
\*   continuation  a further line of such an import (a name, the closing paren)
\*   blank         a line that strip() empties
\*   stmt          any other line
\* The lines the splice adds are blank lines and helper lines.
SourceLineKinds == {"import", "import_open", "continuation", "blank", "stmt"}

\* Python sources: a continuation follows the line that opened the import or
\* another continuation, and an opened import is continued
WellFormedSource(lines) ==
    \A i \in 1..Len(lines) :
        /\ lines[i] = "continuation" =>
              i > 1 /\ lines[i - 1] \in {"import_open", "continuation"}
        /\ lines[i] = "import_open" =>
              i < Len(lines) /\ lines[i + 1] = "continuation"

GeneratedSources ==
    {lines \in SeqsUpTo(SourceLineKinds, MaxSource) : WellFormedSource(lines)}

\* used_helpers is not empty only if some line holds the name of a helper
\* followed by a parenthesis, in code or in a comment: no blank line does
CanUseHelper(lines) == \E i \in 1..Len(lines) : lines[i] # "blank"

\* line.strip() and not line.startswith("import ") and not line.startswith("from ")
EndsImports(line) == line \in {"continuation", "stmt"}

\* import_end: the index (from 0) of the first line that ends the imports,
\* 0 when the loop finds none
ImportEnd(lines) ==
    LET stops == {i \in 1..Len(lines) : EndsImports(lines[i])}
    IN IF stops = {} THEN 0 ELSE Least(stops) - 1

\* _post_process_with_helpers, from the helper definitions it extracted
post_process_with_helpers(lines, helper_definitions) ==
    IF helper_definitions # <<>>
    THEN SubSeq(lines, 1, ImportEnd(lines))
            \o <<"blank">> \o helper_definitions \o <<"blank">>
            \o SubSeq(lines, ImportEnd(lines) + 1, Len(lines))
    ELSE lines

PostProcessWithHelpers ==
    /\ fn_arg.fn = "_post_process_with_helpers"
    /\ Applied("_post_process_with_helpers",
               Returned(post_process_with_helpers(fn_arg.lines,
                                                  fn_arg.helper_definitions)))

InitSplice ==
    /\ max_retries = DefaultMaxRetries
    /\ StartState
    /\ response = EmptyText
    /\ fn = "None"
    /\ fn_ret = NotApplied
    /\ \E lines \in GeneratedSources, defs \in SeqsUpTo({"helper"}, MaxHelpers) :
          /\ CanUseHelper(lines) \/ defs = <<>>
          /\ fn_arg = [fn |-> "_post_process_with_helpers", lines |-> lines,
                       helper_definitions |-> defs]

NextSplice == PostProcessWithHelpers

SpecSplice == InitSplice /\ [][NextSplice]_vars

----------------------------------------------------------------------------
(* CodegenAgent._extract_function_definitions *)

\* A line of a helper source, as far as the pattern and the cleaning read it:
\*   def      a top-level def line with its parameter list and colon
\*   class    a top-level class line
\*   body     an indented line of code
\*   comment  an indented line holding only a comment
\*   empty    a line of no characters
\*   top      any other top-level line
HelperLineKinds == {"def", "class", "body", "comment", "empty", "top"}

\* Indented lines stand below some other line
HelperSources ==
    {lines \in SeqsUpTo(HelperLineKinds, MaxSource) :
        lines # <<>> => lines[1] \notin {"body", "comment"}}

\* The lookahead (?=^def\s|^class\s|^$|\Z): the lazy match from the def line d
\* ends before the first later line that is a def, a class or empty, or at
\* the end of the text
MatchEnd(lines, d) ==
    LET stops == {i \in (d + 1)..Len(lines) : lines[i] \in {"def", "class", "empty"}}
    IN IF stops = {} THEN Len(lines) ELSE Least(stops) - 1

\* One cleaned match, as the indices of the lines it holds
CleanedMatch(lines, d) ==
    SelectSeq([k \in 1..(MatchEnd(lines, d) - d + 1) |-> d + k - 1],
              LAMBDA i : lines[i] # "comment")

\* _extract_function_definitions: one cleaned match for every def line
extract_function_definitions(lines) ==
    LET starts == SelectSeq([i \in 1..Len(lines) |-> i], LAMBDA i : lines[i] = "def")
    IN [k \in 1..Len(starts) |-> CleanedMatch(lines, starts[k])]

ExtractFunctionDefinitions ==
    /\ fn_arg.fn = "_extract_function_definitions"
    /\ Applied("_extract_function_definitions",
               Returned(extract_function_definitions(fn_arg.lines)))

InitExtract ==
    /\ max_retries = DefaultMaxRetries
    /\ StartState
    /\ response = EmptyText
    /\ fn = "None"
    /\ fn_ret = NotApplied
    /\ \E lines \in HelperSources :
          fn_arg = [fn |-> "_extract_function_definitions", lines |-> lines]

NextExtract == ExtractFunctionDefinitions

SpecExtract == InitExtract /\ [][NextExtract]_vars

----------------------------------------------------------------------------
(* Properties of the retry loops and the stage entry points *)

\* The current invocation's retry loop is over (it returned or raised)
LoopOver == pc \in {"validate", "returned", "raised"}

SomeAttemptOk == \E k \in 1..Len(replies) : ParseOk(entry, replies[k])

\* The first attempt whose call and parse both succeeded
FirstOk == CHOOSE k \in 1..Len(replies) :
              /\ ParseOk(entry, replies[k])
              /\ \A j \in 1..(k - 1) : ~ParseOk(entry, replies[j])

\* A reply that parses to a record the stage's validation rejects
InvalidRecord(e, r) == ParseOk(e, r) /\ ~Validates(e, r)

\* C1: with max_retries >= 1 a retry loop (either _call_with_retry or a
\* process_async loop) makes at most max_retries external calls, and when
\* attempt k is the first whose call and parse succeed it makes exactly k
\* calls and returns the result of attempt k.
C1_RetryLoopReturnsFirstSuccess ==
    (max_retries >= 1 /\ entry \in StageEntries) =>
        /\ calls <= max_retries
        /\ (LoopOver /\ SomeAttemptOk) =>
              /\ calls = FirstOk
              /\ loop_ret = [attempt |-> FirstOk, reply |-> replies[FirstOk]]

\* C2: for every max_retries >= 0, a _call_with_retry none of whose attempts
\* succeeded raises an exhaustion error naming the agent and carrying the
\* last attempt's error; it never returns normally without a record.
C2_ExhaustionRaises ==
    (entry \in SyncEntries /\ LoopOver /\ ~SomeAttemptOk) =>
        /\ pc = "raised"
        /\ loop_ret = None
        /\ error.kind = "exhausted"
        /\ error.agent = AgentName(entry)
        /\ error.retries = {max_retries}
        /\ replies # <<>>
        /\ error.last = replies[Len(replies)]

\* C3: in every stage entry point that validates a record, a reply that
\* parses to a record failing validation is the last external call of the
\* invocation and the invocation fails.
C3_ValidationFailureNotRetried ==
    (entry \in StageEntries \ {"codegen"}) =>
        \A i \in 1..Len(replies) :
            InvalidRecord(entry, replies[i]) =>
                /\ i = Len(replies)
                /\ pc \in {"validate", "raised"}

----------------------------------------------------------------------------
(* Properties of generate_quantum_code *)

\* Every stage but the last invoked one has returned a validated output
EarlierStagesValidated ==
    \A i \in 1..(Len(invoked) - 1) :
        /\ i <= Len(outputs)
        /\ Validates(StageOrder[i], outputs[i])

\* C4: the stages of a request run in the fixed order semantic, discovery,
\* param, pipeline, codegen, each at most once, a stage only after every
\* earlier one returned a validated output, and none after a stage failed.
C4_StagesInOrder ==
    /\ Len(invoked) <= Len(StageOrder)
    /\ \A i \in 1..Len(invoked) : invoked[i] = StageOrder[i]
    /\ EarlierStagesValidated
    /\ (opc = "running" => entry = invoked[Len(invoked)])
    /\ (opc \in {"running", "raised"} /\ pc = "raised") =>
          /\ entry = invoked[Len(invoked)]
          /\ Len(outputs) = Len(invoked) - 1

\* The third stage failed its validation: planning and assembly never ran
C4_Witness ==
    /\ opc = "raised"
    /\ error.kind = "validation"
    /\ invoked = <<"semantic", "discovery", "param">>

\* C5: generate_quantum_code returns only the assembly stage's output, after
\* all five stages returned validated outputs; in every other case, and
\* whenever a stage failed, it returns nothing (it raises).
C5_AllOrNothing ==
    /\ (opc = "returned") =>
          /\ invoked = StageOrder
          /\ Len(outputs) = Len(StageOrder)
          /\ \A i \in 1..Len(StageOrder) : Validates(StageOrder[i], outputs[i])
          /\ entry = "codegen"
          /\ pc = "returned"
          /\ artifact = result
          /\ artifact # None
    /\ (opc # "returned") => artifact = None
    /\ (opc = "raised") => orch_error # NoFailure
    /\ (opc # "idle" /\ pc = "raised") => opc \in {"running", "raised"}

\* The assembly stage failed with four intermediate outputs in hand
C5_Witness ==
    /\ opc = "raised"
    /\ pc = "raised"
    /\ entry = "codegen"
    /\ Len(outputs) = 4
    /\ artifact = None

\* The store holds a record whose output is the value res
HoldsRecordOf(st, res) ==
    \E c \in Categories : \E i \in 1..Len(st[c]) :
        /\ "output" \in DOMAIN st[c][i]
        /\ \/ st[c][i].output = res
           \/ st[c][i].output = [code |-> res]

\* C9: whenever process of a stage holding the store (DiscoveryAgent,
\* ParamProcessorAgent, CodegenAgent) returns, the store holds a record of
\* the value it returned.
C9_SuccessIsRecorded ==
    (pc = "returned" /\ entry \in {"discovery", "param", "codegen"}) =>
        HoldsRecordOf(store, result)

----------------------------------------------------------------------------
(* Properties of the AgentMemory *)

\* C6: after any sequence of record operations every category list holds
\* at most 50 records.
C6_EveryCategoryBounded ==
    \A c \in Categories : Len(store[c]) <= Capacity

\* The records the n-th record operation of SpecFifo inserted
SerialCompletion(n) ==
    CompletionRecord(SerialQuery, SerialComponents, SerialParams(n), SerialResult)
SerialNormalization(n) ==
    NormalizationRecord(SerialQuery, SerialComponents, SerialParams(n), SerialResult)

\* C7: after 51 calls of record_param_processing on an empty store,
\* param_completions and param_normalizations each hold exactly 50 records,
\* the first inserted record is absent and the survivors are in their
\* insertion order (the calls were the record operations serial-50..serial).
C7_OldestEvictedFirst ==
    (proc_calls = Capacity + 1 /\ other_calls = 0) =>
        LET first == serial - Capacity IN
        /\ Len(store.param_completions) = Capacity
        /\ Len(store.param_normalizations) = Capacity
        /\ \A i \in 1..Capacity :
              /\ store.param_completions[i] = SerialCompletion(first + i)
              /\ store.param_normalizations[i] = SerialNormalization(first + i)
              /\ store.param_completions[i] # SerialCompletion(first)
              /\ store.param_normalizations[i] # SerialNormalization(first)

\* The 51st call on a store that was empty has just run
C7_Witness ==
    /\ proc_calls = Capacity + 1
    /\ other_calls = 0
    /\ Len(store.param_completions) = Capacity

\* C8: after clear() and until the next record operation every category is
\* empty and every find operation returns absent.
C8_ClearEmptiesEverything ==
    cleared =>
        /\ \A c \in Categories : store[c] = <<>>
        /\ \A t \in AgentTypes, i \in MemTaskCards :
              find_similar_case(store, t, i) = Absent
        /\ \A q \in MemQueries, c \in MemComponents :
              /\ find_param_completion_pattern(store, q, c) = Absent
              /\ find_param_processing_pattern(store, q, c) = Absent
        /\ \A t \in MemTaskCards : find_param_normalization_pattern(store, t) = Absent

----------------------------------------------------------------------------
(* Properties of the response parser *)

\* ts is one balanced object between prose: the tokens a..b are an object,
\* every other token is a word of prose and there is at least one
WrapsObject(ts, a, b) ==
    /\ a < b
    /\ IsObject(SubSeq(ts, a, b))
    /\ \A i \in (1..Len(ts)) \ (a..b) : ts[i] = "w"
    /\ Len(ts) > b - a + 1

\* The text holds exactly one balanced object preceded and/or followed by
\* prose, on the lines of its braces or on lines of its own
ProseWrapped(text) ==
    \E a, b \in 1..Len(Flat(text)) : WrapsObject(Flat(text), a, b)

\* The object a prose-wrapped text holds
WrappedObject(text) ==
    LET ts == Flat(text)
        ab == CHOOSE ab \in (1..Len(ts)) \X (1..Len(ts)) : WrapsObject(ts, ab[1], ab[2])
    IN SubSeq(ts, ab[1], ab[2])

\* C10: for a raw text holding exactly one balanced object preceded and/or
\* followed by prose, on the same line as its braces or on separate lines,
\* _parse_json_with_retry returns that object unchanged.
C10_RecoversWrappedObject ==
    (parsed # NotParsed /\ ProseWrapped(response)) =>
        parsed = Decoded(WrappedObject(response))

\* The tokens of the text the decoding steps see: the fences stripped if the
\* text starts with one
Seen(text) == Flat(IF StartsWithFence(text) THEN StripFences(text) ELSE text)

\* obj is a complete object that stands in the tokens ts
StandsIn(obj, ts) ==
    /\ IsObject(obj)
    /\ \E a, b \in 1..Len(ts) : SubSeq(ts, a, b) = obj

\* Some line opens an object
SomeLineOpens(text) == \E i \in 1..Len(text) : OpensObject(text[i])

\* After the first line that opens an object the braces never balance
NeverBalances(text) ==
    /\ SomeLineOpens(text)
    /\ LET start == Least({i \in 1..Len(text) : OpensObject(text[i])})
       IN \A j \in start..Len(text) : BalanceUpTo(text, start, j) # 0

\* C11: _parse_json_with_retry returns a value only when that value was
\* decoded from the text, and otherwise raises ValueError and nothing else:
\* in particular for empty or whitespace-only text, for text that is no object
\* and has no line opening one, and for a collected span that does not decode,
\* balanced or not.
C11_ParseErrorIsValueError ==
    parsed # NotParsed =>
        /\ parsed.kind \in {"value", "ValueError"}
        /\ parsed.kind = "value" => StandsIn(parsed.value, Seen(response))
        /\ IsBlank(response) => parsed = ValueError
        /\ (~IsObject(Seen(response)) /\ ~\E a, b \in 1..Len(Seen(response)) :
                IsObject(SubSeq(Seen(response), a, b))) => parsed = ValueError
        /\ (~IsBlank(response) /\ ~StartsWithFence(response)
              /\ ~IsObject(Flat(response))) =>
               /\ ~SomeLineOpens(response) => parsed = ValueError
               /\ NeverBalances(response) => parsed = ValueError
               /\ (SomeLineOpens(response) /\ ~IsObject(Flat(JsonLines(response))))
                     => parsed = ValueError

\* A text whose braces never balance after the line that opens an object was
\* parsed and raised ValueError
C11_Witness ==
    /\ parsed = ValueError
    /\ ~StartsWithFence(response)
    /\ NeverBalances(response)

----------------------------------------------------------------------------
(* Properties of the helper functions *)

\* The entries of a registry whose kind is core, backend or algorithm
CoreEntries(registry_data) ==
    {i \in 1..Len(registry_data) : registry_data[i].kind \in {"core", "backend", "algorithm"}}

\* C12: for every intent and every catalog of distinct entries that holds at
\* least 3 entries of kind core, backend or algorithm,
\* _filter_relevant_components returns at least 3 entries, whatever the scores.
C12_FilterKeepsThree ==
    (fn = "_filter_relevant_components"
       /\ Cardinality(CoreEntries(fn_arg.registry_data)) >= 3) =>
        /\ fn_ret.kind = "value"
        /\ Len(fn_ret.value) >= 3

\* The scores kept fewer than 3 entries of a catalog with 3 core, backend or
\* algorithm entries, and the filter has returned
C12_Witness ==
    /\ fn = "_filter_relevant_components"
    /\ Cardinality(CoreEntries(fn_arg.registry_data)) >= 3
    /\ Len(SelectSeq(fn_arg.registry_data,
                     LAMBDA c : Relevant(fn_arg.task_card, c))) < 3
    /\ fn_ret.kind = "value"

\* C13: schema compression is idempotent: compressing the result of
\* _compress_schema, or of _compress_schema_for_llm, gives that result again.
C13_CompressionIdempotent ==
    fn = "again" => fn_ret.value = fn_arg.x

\* The result of _compress_schema, holding a dict spec cut down to its type
\* key, was compressed again
C13_Witness ==
    /\ fn = "again"
    /\ fn_arg.fn = "_compress_schema"
    /\ \E item \in fn_arg.x : item[2].is_dict /\ item[2].items = {<<"type", "v">>}
    /\ fn_ret.kind = "value"

\* _analyze_component_dependencies has returned
Bound == fn = "_analyze_component_dependencies" /\ fn_ret.kind = "value"

\* The positions of execution_order before position p whose component is classified
ClassifiedBefore(p) ==
    {i \in 1..(p - 1) : fn_arg.execution_order[i] \in DOMAIN fn_ret.value.component_types}

\* The variable names of the role table
RoleVariables == {"H", "optimizer", "ansatz", "estimator", "algorithm"}

\* requires of the algorithm component algo_name
Requires(algo_name) == fn_ret.value.algorithm_dependencies[algo_name].requires

\* The only algorithm-classified component stands at the end of execution_order
OneAlgorithmLast ==
    /\ Bound
    /\ fn_arg.execution_order # <<>>
    /\ DOMAIN fn_ret.value.algorithm_dependencies =
          {fn_arg.execution_order[Len(fn_arg.execution_order)]}

\* C14: for every plan with one algorithm-classified component C at the end
\* of execution_order and k preceding classified components, the binding of C
\* has exactly k entries and each entry has a distinct canonical variable name
\* taken from the role table.
C14_BindingDistinctVariables ==
    OneAlgorithmLast =>
        LET order == fn_arg.execution_order
            requires == Requires(order[Len(order)])
        IN /\ Len(requires) = Cardinality(ClassifiedBefore(Len(order)))
           /\ \A i \in 1..Len(requires) : requires[i].variable \in RoleVariables
           /\ \A i, j \in 1..Len(requires) :
                 requires[i].variable = requires[j].variable => i = j

\* The types of the components of execution_order, in order
TypesInOrder ==
    [i \in 1..Len(fn_arg.execution_order) |-> Classify(fn_arg.execution_order[i])]

\* C15: for a component set with exactly one Hamiltonian, one Optimizer, one
\* Circuit, one Backend and one Algorithm component and execution_order
\* listing them in that order, the algorithm's binding has exactly four
\* entries whose variable names are H, optimizer, ansatz, estimator, in order.
C15_FourCanonicalBindings ==
    (/\ Bound
     /\ fn_arg.components = SetOf(fn_arg.execution_order)
     /\ TypesInOrder = <<"hamiltonian", "optimizer", "circuit", "backend", "algorithm">>) =>
        LET requires == Requires(fn_arg.execution_order[5])
        IN [i \in 1..Len(requires) |-> requires[i].variable]
              = <<"H", "optimizer", "ansatz", "estimator">>

\* The five components, one of each type, were bound in that order
C15_Witness ==
    /\ Bound
    /\ fn_arg.components = SetOf(fn_arg.execution_order)
    /\ TypesInOrder = <<"hamiltonian", "optimizer", "circuit", "backend", "algorithm">>
    /\ Len(Requires(fn_arg.execution_order[5])) = 4

\* C16: for every component classified as algorithm and every
\* execution_order, its binding lists, in execution order, exactly the other
\* classified components that appear before it in execution_order; a
\* component placed after the algorithm is not in its binding.
C16_BindingOnlyPredecessors ==
    Bound =>
        \A algo_name \in DOMAIN fn_ret.value.algorithm_dependencies :
            \A p \in 1..Len(fn_arg.execution_order) :
                fn_arg.execution_order[p] = algo_name =>
                    [i \in 1..Len(Requires(algo_name)) |-> Requires(algo_name)[i].name]
                       = SelectSeq(SubSeq(fn_arg.execution_order, 1, p - 1),
                                   LAMBDA n : n # algo_name
                                      /\ n \in DOMAIN fn_ret.value.component_types)

\* execution_order is a topological ordering of dependency_graph: no name
\* stands before any of its prerequisites
Topological(plan) ==
    \A i, j \in 1..Len(plan.execution_order) :
        <<plan.execution_order[i], plan.execution_order[j]>> \in plan.dependency_graph
            => j < i

\* C17: every PipelinePlan that the planning stage returns, and that the
\* orchestrator hands to assembly, has execution_order a valid topological
\* ordering of dependency_graph; a plan violating this makes the request
\* fail instead of reaching assembly.
C17_PlanIsTopological ==
    /\ (fn = "PipelineAgent.process" /\ fn_ret.kind = "value")
          => Topological(fn_ret.value)
    /\ fn = "CodegenAgent.process" => Topological(fn_arg.pipeline_plan)

\* The parameter names of the union of the components' params_schema that are
\* not in normalized_params and have no schema default in the union
Offending ==
    LET union == RequiredSchema(fn_arg.schemas)
    IN {n \in DOMAIN union :
           /\ n \notin fn_arg.data.normalized_params
           /\ ~(union[n].is_dict /\ union[n].default = "4")}

ParamProcessed == fn = "ParamProcessorAgent.process"

\* The stage failed with exactly the names in missing
FailedWithMissing(names) ==
    /\ fn_ret.kind = "raised"
    /\ fn_ret.validation.valid = FALSE
    /\ fn_ret.validation.missing = {<<"param", n>> : n \in names}

\* C18 as stated: ParamProcessorAgent.process returns a ParameterMap only if
\* every parameter name of the union of the components' params_schema is in
\* normalized_params or has a schema default; otherwise validation reports
\* valid=false with exactly the offending parameter names in missing and the
\* stage fails.
C18_MissingNamesReported ==
    ParamProcessed =>
        /\ fn_ret.kind = "value" => Offending = {}
        /\ Offending # {} => FailedWithMissing(Offending)

\* The reply holds the four required fields
HoldsRequiredFields == SetOf(ParamMapFields) \subseteq fn_arg.data.fields

\* C18, amended: ParamProcessorAgent.process returns only a reply that holds
\* the four required fields and whose offending parameter names are none; a
\* reply that holds the four fields and has offending names fails with exactly
\* those names in missing; a reply that lacks a required field fails with the
\* first lacking field, and no parameter name, in missing.
C18_MissingNamesReportedForCompleteRecord ==
    ParamProcessed =>
        /\ fn_ret.kind = "value" => (Offending = {} /\ HoldsRequiredFields)
        /\ (HoldsRequiredFields /\ Offending # {}) => FailedWithMissing(Offending)
        /\ ~HoldsRequiredFields =>
              /\ fn_ret.kind = "raised"
              /\ fn_ret.validation.valid = FALSE
              /\ \E f \in SetOf(ParamMapFields) \ fn_arg.data.fields :
                    fn_ret.validation.missing = {<<"Missing field", f>>}

\* A reply with the four fields that omits a parameter without default, while
\* another parameter is covered by a default, has failed
C18_Witness ==
    /\ ParamProcessed
    /\ HoldsRequiredFields
    /\ Offending = {"n"}
    /\ "J" \in DOMAIN RequiredSchema(fn_arg.schemas)
    /\ "J" \notin fn_arg.data.normalized_params
    /\ fn_ret.kind = "raised"

\* An IntentRecord: a dict with the five keys, a recognized domain and the
\* fixed backend
IsIntentRecord(data) ==
    /\ data.shape = "dict"
    /\ {"domain", "problem", "algorithm", "backend", "params"} \subseteq data.fields
    /\ data.domain \in {"spin", "spin.tfim", "spin.heisenberg", "spin.ising",
                        "chemistry.molecular", "optimization", "custom"}
    /\ data.backend = "qiskit"

\* C19: every record returned by SemanticAgent.process, hence every one that
\* reaches the discovery and parameter stages, has all five keys, a domain in
\* the closed recognized set and backend equal to the one fixed value; any
\* other parsed record makes the intent stage fail.
C19_IntentRecordValidated ==
    /\ fn = "SemanticAgent.process" =>
          IF IsIntentRecord(fn_arg.data) THEN fn_ret = Returned(fn_arg.data)
          ELSE fn_ret.kind = "raised"
    /\ fn_arg.fn = "handed over" => IsIntentRecord(fn_arg.task_card)

\* A dict with the five keys and the fixed backend but an unrecognized domain
\* made the intent stage fail
C19_Witness ==
    /\ fn = "SemanticAgent.process"
    /\ fn_arg.data.shape = "dict"
    /\ fn_arg.data.fields = TaskCardFields
    /\ fn_arg.data.domain = "qml"
    /\ fn_arg.data.backend = "qiskit"
    /\ fn_ret.kind = "raised"

\* C20: in the concurrent mode the discovery stage and the preliminary
\* parameter stage are both started against the same intent record and joined;
\* whenever the intent, discovery, parameter, planning and assembly stages all
\* succeed, generate_quantum_code_parallel returns the assembly output.
C20_ParallelReturnsAssembly ==
    (/\ fn = "generate_quantum_code_parallel"
     /\ \A stage \in DOMAIN fn_arg.stages : fn_arg.stages[stage] = "returns") =>
        fn_ret.kind = "value"

\* C21: in the concurrent mode, if the discovery task or the parameter task
\* fails, the join completes only once both tasks have settled, the request
\* fails with an error identifying the failing task, and neither planning nor
\* assembly is invoked.
C21_JoinSurfacesFailingTask ==
    (/\ fn = "generate_quantum_code_parallel"
     /\ fn_arg.stages["semantic"] = "returns"
     /\ \E task \in {"discovery", "param"} : fn_arg.stages[task] = "raises") =>
        /\ fn_ret.kind = "raised"
        /\ fn_ret.settled = {"discovery", "param"}
        /\ \/ fn_ret.cause = "DiscoveryAgent" /\ fn_arg.stages["discovery"] = "raises"
           \/ fn_ret.cause = "ParamProcessorAgent" /\ fn_arg.stages["param"] = "raises"
        /\ fn_ret.invoked \cap {"pipeline", "codegen"} = {}

\* C22: whenever generate_quantum_code fails, the error it raises names the
\* stage that failed, states the number of attempts made and carries the
\* root error, after exhaustion and after a validation failure alike.
C22_FailureNamesStageAttemptsAndRoot ==
    (opc = "raised") =>
        /\ orch_error.stage # "None"
        /\ orch_error.cause.retries = {max_retries}
        /\ orch_error.cause.kind \in {"exhausted", "validation"}

\* C23: for the same request and the same replies of the external model,
\* CodegenAgent.process ends the same way (same returned source or same
\* failure) and makes the same external calls whatever the AgentMemory holds:
\* a hit or a miss of the lookup changes nothing.
C23_OutcomeIndependentOfMemory ==
    (fn = "CodegenAgent.process") =>
        /\ fn_ret.left.ret = fn_ret.right.ret
        /\ fn_ret.left.calls = fn_ret.right.calls

\* The lookup hits in one memory and misses in the other, and the call returned
C23_Witness ==
    /\ fn = "CodegenAgent.process"
    /\ find_similar_case(fn_arg.left, "CodegenAgent", CodegenLookupKey(fn_arg.input)) # Absent
    /\ find_similar_case(fn_arg.right, "CodegenAgent", CodegenLookupKey(fn_arg.input)) = Absent
    /\ fn_ret.left.ret.kind = "value"
    /\ fn_ret.left.calls > 1

\* C24: find_param_completion_pattern returns the earliest-inserted pattern
\* still stored whose query type and set of component kinds equal those of
\* the query, and None exactly when no stored pattern matches.  Every pattern
\* carries in original_params the serial number of the call that inserted it.
Stamp(rec) == CHOOSE n \in 1..(MaxProcessing + 1) : <<"n", n>> \in rec.original_params

MatchingPatterns(st, query, components) ==
    {st.param_completions[i] : i \in
        {k \in 1..Len(st.param_completions) :
            /\ st.param_completions[k].query_type = ExtractQueryType(query)
            /\ SetOf(st.param_completions[k].component_types)
                   = SetOf(ComponentTypes(components))}}

EarliestInserted(S) == CHOOSE rec \in S : \A other \in S : Stamp(rec) <= Stamp(other)

C24_FirstMatchWins ==
    [][\A q \in MemQueries, c \in MemComponents :
          FindParamCompletionPattern(q, c) =>
              found' = IF MatchingPatterns(store, q, c) = {} THEN Absent
                       ELSE Found(EarliestInserted(MatchingPatterns(store, q, c)))]_vars

\* A find returned the oldest pattern still stored after the very first one
\* was evicted, with other matching patterns stored behind it
C24_Witness ==
    /\ found # Absent
    /\ found # KeyError
    /\ Len(store.param_completions) = Capacity
    /\ found.value = store.param_completions[1]
    /\ Stamp(found.value) > 1

\* C25: in every state of the AgentMemory reachable by record operations,
\* every find operation returns a stored value or None and never raises.
C25_FindNeverRaises == found.kind \in {"absent", "value"}

\* C26: a record is created only when a stage completes successfully.  The
\* store changes only in the step in which a stage entry point returns, so a
\* failing stage invocation leaves it as it was; and when a stage invocation
\* or a generate_quantum_code request has failed, the store holds fewer
\* records than invocations and requests were made: the failed one added none.
RecordCount(st) ==
    Len(st.param_patterns) + Len(st.param_completions) + Len(st.param_normalizations)
    + Len(st.component_combinations) + Len(st.successful_discoveries)
    + Len(st.generation_patterns) + Len(st.successful_generations)
    + Len(st.validation_failures) + Len(st.missing_param_cases)

C26_RecordOnlyOnSuccess ==
    /\ []((pc = "raised" \/ opc = "raised") => RecordCount(store) < invocations)
    /\ [][store' # store => (pc # "returned" /\ pc' = "returned")]_vars

\* A request failed in its last stage, after that stage had obtained a reply
C26_Witness ==
    /\ opc = "raised"
    /\ entry = "codegen"
    /\ calls > 0
    /\ error.kind = "validation"
    /\ store = EmptyStore

\* C27: under any interleaving of concurrent record_param_processing and find
\* calls on one AgentMemory, no find visits more than 50 patterns of a
\* category, and a step removes from a category at most its single oldest
\* record.
NothingLostBut(old, new) ==
    \E k \in {0, 1} :
        /\ k <= Len(old)
        /\ Len(new) >= Len(old) - k
        /\ SubSeq(new, 1, Len(old) - k) = SubSeq(old, k + 1, Len(old))

C27_ReadersSeeBoundedCategories ==
    /\ [](fn_ret.kind = "observed" => fn_ret.visited <= Capacity)
    /\ [][/\ NothingLostBut(store.param_completions, store'.param_completions)
          /\ NothingLostBut(store.param_normalizations, store'.param_normalizations)]_vars

----------------------------------------------------------------------------
(* Properties of the relevance filter *)

\* The score as the scoring rule states it, in tenths; strings are compared
\* in lower case
DomainMatch(task_card, component) ==
    \E token \in task_card.domain :
        Occurs(token, component.name) \/ Occurs(token, component.tags)

AlgorithmMatch(task_card, component) ==
    Occurs(task_card.algorithm, component.name)
       \/ Occurs(task_card.algorithm, component.tags)

StatedScore(task_card, component) ==
    LET add(cond, tenths) == IF cond THEN tenths ELSE 0
    IN add(DomainMatch(task_card, component), 4)
       + add(AlgorithmMatch(task_card, component), 3)
       + add(LowerKind(component.kind) \in {"hamiltonian", "ansatz", "optimizer",
                                            "algorithm"}, 2)
       + add(LowerKind(component.kind) \in {"core", "backend"}
                \/ "core" \in component.tags, 1)

ReachThreshold(task_card, registry_data) ==
    {i \in 1..Len(registry_data) : StatedScore(task_card, registry_data[i]) >= 2}

Unmatched(task_card, component) ==
    /\ LowerKind(component.kind) \in {"core", "backend"}
    /\ ~DomainMatch(task_card, component)
    /\ ~AlgorithmMatch(task_card, component)

\* C28: when at least 3 entries of the registry reach the threshold,
\* _filter_relevant_components returns exactly the entries whose score is at
\* least 0.2, in the order of the registry; an entry of kind core or backend
\* that matches neither the domain nor the algorithm is not among them.
C28_ExactlyTheEntriesAtThreshold ==
    (/\ fn = "_filter_relevant_components"
     /\ Cardinality(ReachThreshold(fn_arg.task_card, fn_arg.registry_data)) >= 3) =>
        /\ fn_ret.kind = "value"
        /\ fn_ret.value = SelectSeq(fn_arg.registry_data,
                                    LAMBDA c : StatedScore(fn_arg.task_card, c) >= 2)
        /\ \A i \in 1..Len(fn_arg.registry_data) :
              Unmatched(fn_arg.task_card, fn_arg.registry_data[i]) =>
                  \A k \in 1..Len(fn_ret.value) :
                      fn_ret.value[k] # fn_arg.registry_data[i]

\* Three entries reach the threshold, a backend entry that matches nothing
\* stands before one of them, and the filter has returned
C28_Witness ==
    /\ fn = "_filter_relevant_components"
    /\ Cardinality(ReachThreshold(fn_arg.task_card, fn_arg.registry_data)) >= 3
    /\ Unmatched(fn_arg.task_card, fn_arg.registry_data[1])
    /\ fn_ret.kind = "value"
    /\ Len(fn_ret.value) = 3

\* C29: when the algorithm, or the domain, of the task card is the empty
\* string or missing (get then yields the empty string), the match succeeds
\* for every entry and _filter_relevant_components returns the whole
\* registry, whatever the kinds, names and tags.
EmptyIntent(task_card) == task_card.algorithm = "" \/ task_card.domain = {""}

C29_EmptyIntentKeepsEverything ==
    (fn = "_filter_relevant_components" /\ EmptyIntent(fn_arg.task_card)) =>
        /\ fn_ret.kind = "value"
        /\ fn_ret.value = fn_arg.registry_data
        /\ \A i \in 1..Len(fn_arg.registry_data) :
              \/ AlgorithmMatch(fn_arg.task_card, fn_arg.registry_data[i])
              \/ DomainMatch(fn_arg.task_card, fn_arg.registry_data[i])

\* The algorithm is empty, the domain matches nothing, and an entry of a kind
\* that earns no score was returned with the rest of the registry
C29_Witness ==
    /\ fn = "_filter_relevant_components"
    /\ fn_arg.task_card.algorithm = ""
    /\ fn_arg.task_card.domain = {"custom"}
    /\ Len(fn_arg.registry_data) = MaxCatalog
    /\ \E i \in 1..Len(fn_arg.registry_data) :
          /\ fn_arg.registry_data[i].kind = "visualization"
          /\ fn_ret.kind = "value"
          /\ fn_ret.value[i] = fn_arg.registry_data[i]

\* C30: for every task card and registry of distinct entries, the result of
\* _filter_relevant_components holds only entries of the registry, each at
\* most once, also when the fallback has run; the registry and its entries
\* are left as they were.
C30_ResultWithinRegistry ==
    /\ [](fn = "_filter_relevant_components" =>
            /\ fn_ret.kind = "value"
            /\ \A k \in 1..Len(fn_ret.value) :
                  \E i \in 1..Len(fn_arg.registry_data) :
                      fn_ret.value[k] = fn_arg.registry_data[i]
            /\ Distinct(fn_ret.value))
    /\ [][fn_arg' = fn_arg]_vars

\* The fallback ran over a registry of which an algorithm entry was already
\* kept, and added another entry
C30_Witness ==
    /\ fn = "_filter_relevant_components"
    /\ fn_ret.kind = "value"
    /\ LET kept == SelectSeq(fn_arg.registry_data,
                             LAMBDA c : Relevant(fn_arg.task_card, c))
       IN /\ Len(kept) < 3
          /\ \E i \in 1..Len(kept) : kept[i].kind = "algorithm"
          /\ Len(fn_ret.value) > Len(kept)

----------------------------------------------------------------------------
(* Properties of the schema compression and of the assembly helpers *)

FieldNames(schema) == {item[1] : item \in schema}

\* out is the schema the compression rule prescribes for schema
CompressedAsStated(schema, out) ==
    /\ FieldNames(out) = FieldNames(schema)
    /\ Cardinality(out) = Cardinality(schema)
    /\ \A item \in schema :
          \E o \in out :
             /\ o[1] = item[1]
             /\ IF item[2].is_dict
                THEN /\ o[2].is_dict
                     /\ o[2].items =
                           {kv \in item[2].items :
                               kv[1] \in {"type", "default", "range", "options"}}
                ELSE o[2] = item[2]

\* C31: the compressed schema has exactly the field names of the input; a
\* mapping-valued field keeps exactly its keys among type, default, range and
\* options, with their values; a scalar-valued field is passed through.
C31_CompressionKeepsStatedKeys ==
    (fn # "None" /\ fn_arg.fn \in {"_compress_schema", "_compress_schema_for_llm"}) =>
        /\ fn_ret.kind = "value"
        /\ IF fn_arg.fn = "_compress_schema"
           THEN CompressedAsStated(fn_arg.x, fn_ret.value)
           ELSE /\ Len(fn_ret.value) = Len(fn_arg.x)
                /\ \A i \in 1..Len(fn_arg.x) :
                      fn_arg.x[i].has_schema =>
                          CompressedAsStated(fn_arg.x[i].params_schema,
                                             fn_ret.value[i].params_schema)

\* _compress_schema was applied to a schema with a scalar field and a mapping
\* field that holds options, range and a description
C31_Witness ==
    /\ fn = "_compress_schema"
    /\ fn_ret.kind = "value"
    /\ \E a \in fn_arg.x, b \in fn_arg.x :
          /\ ~a[2].is_dict
          /\ b[2].is_dict
          /\ {"options", "range", "description"} \subseteq {kv[1] : kv \in b[2].items}

\* C32: schema compression never changes its argument: after
\* _compress_schema_for_llm, _compress_components_for_llm or _compress_schema
\* the components and their params_schema, descriptions included, are as
\* they were before the call.
C32_CompressionLeavesArgument ==
    [][(fn = "None" /\ fn' \in Compressions) => fn_arg' = fn_arg]_vars

\* _compress_schema_for_llm returned for a component a schema that differs
\* from the one the component holds
C32_Witness ==
    /\ fn = "_compress_schema_for_llm"
    /\ fn_ret.kind = "value"
    /\ \E i \in 1..Len(fn_arg.x) :
          /\ fn_arg.x[i].has_schema
          /\ fn_ret.value[i].params_schema # fn_arg.x[i].params_schema
          /\ \E item \in fn_arg.x[i].params_schema :
                item[2].is_dict /\ <<"description", "v">> \in item[2].items

\* A classified component that is no algorithm and is named in execution_order
PlannedNonAlgorithm(n) ==
    /\ n \in fn_arg.components
    /\ Classify(n) \notin {"None", "algorithm"}
    /\ \E p \in 1..Len(fn_arg.execution_order) : fn_arg.execution_order[p] = n

\* C33: for every component set and execution_order, the binding of each
\* component classified as algorithm includes every classified non-algorithm
\* component whose name is in execution_order.
C33_BindingOmitsNothing ==
    Bound =>
        \A algo_name \in DOMAIN fn_ret.value.algorithm_dependencies :
            \A n \in BindNames :
                PlannedNonAlgorithm(n) =>
                    \E i \in 1..Len(Requires(algo_name)) : Requires(algo_name)[i].name = n

\* An algorithm was bound whose execution_order names a classified component
\* behind it and another one before it
C33_Witness ==
    /\ Bound
    /\ \E p, q, r \in 1..Len(fn_arg.execution_order) :
          /\ q < p /\ p < r
          /\ fn_arg.execution_order[p] \in DOMAIN fn_ret.value.algorithm_dependencies
          /\ PlannedNonAlgorithm(fn_arg.execution_order[q])
          /\ PlannedNonAlgorithm(fn_arg.execution_order[r])

\* The number of lines of the leading import block: the longest prefix of
\* import lines, their continuations and blank lines, up to its last line
\* that is not blank
LeadingImports(lines) ==
    LET others == {i \in 1..Len(lines) : lines[i] = "stmt"}
        prefix == IF others = {} THEN Len(lines) ELSE Least(others) - 1
        imports == {i \in 1..prefix : lines[i] # "blank"}
    IN IF imports = {} THEN 0 ELSE CHOOSE i \in imports : \A j \in imports : j <= i

FirstStatement(lines) ==
    LET others == {i \in 1..Len(lines) : lines[i] = "stmt"}
    IN IF others = {} THEN Len(lines) + 1 ELSE Least(others)

\* The number of lines of the source that stand before the first helper line
LinesBeforeHelpers(spliced) ==
    Least({i \in 1..Len(spliced) : spliced[i] = "helper"}) - 2

\* C34: when at least one helper definition is spliced,
\* _post_process_with_helpers puts the definitions after the last line of the
\* leading import block of the generated source and before any other
\* statement (blank lines between the two may stand on either side).
C34_HelpersFollowImports ==
    (fn = "_post_process_with_helpers" /\ fn_arg.helper_definitions # <<>>) =>
        /\ fn_ret.kind = "value"
        /\ LinesBeforeHelpers(fn_ret.value) >= LeadingImports(fn_arg.lines)
        /\ LinesBeforeHelpers(fn_ret.value) < FirstStatement(fn_arg.lines)

\* The last line before the top-level definition that follows line d
DefinitionEnd(lines, d) ==
    LET tops == {i \in (d + 1)..Len(lines) : lines[i] \in {"def", "class"}}
    IN IF tops = {} THEN Len(lines) ELSE Least(tops) - 1

\* C35: every block _extract_function_definitions extracts starts at a
\* top-level def line and holds every following line of code up to the next
\* top-level definition or the end of the text, comment-only lines removed,
\* the lines behind an empty line of the function body included.
C35_BlocksRunToNextDefinition ==
    (fn = "_extract_function_definitions") =>
        /\ fn_ret.kind = "value"
        /\ \A d \in 1..Len(fn_arg.lines) :
              fn_arg.lines[d] = "def" =>
                  \E k \in 1..Len(fn_ret.value) :
                     /\ fn_ret.value[k][1] = d
                     /\ \A i \in d..DefinitionEnd(fn_arg.lines, d) :
                           fn_arg.lines[i] \in {"body", "top"} =>
                               \E j \in 1..Len(fn_ret.value[k]) : fn_ret.value[k][j] = i

----------------------------------------------------------------------------
(* Further properties of the retry loops and of the requests *)

\* C36: within one _call_with_retry invocation one pause is taken between any
\* two consecutive attempts and none after a successful attempt or after the
\* final failed attempt: while the loop runs every attempt made was followed
\* by a pause, and an invocation that has ended after n >= 1 attempts took
\* n - 1 pauses.
C36_PausesBetweenAttempts ==
    (entry \in SyncEntries) =>
        /\ (pc = "loop") => pauses = calls
        /\ (LoopOver /\ calls >= 1) => pauses = calls - 1

\* A loop ended by exhaustion after more than one attempt
C36_Witness ==
    /\ entry \in SyncEntries
    /\ pc = "raised"
    /\ error.kind = "exhausted"
    /\ calls >= 2
    /\ pauses = calls - 1

\* C37: after CodegenAgent.process has succeeded and recorded its success, a
\* later call with the same components and param_map finds a recorded case:
\* the key of the lookup is the key of the record, for every param_map.
C37_RecordedCaseIsFound ==
    (fn = "CodegenAgent.process" /\ fn_ret.left.ret.kind = "value") =>
        /\ CodegenLookupKey(fn_arg.input) = CodegenRecordKey(fn_arg.input)
        /\ find_similar_case(fn_ret.left.store, "CodegenAgent",
                             CodegenLookupKey(fn_arg.input)) # Absent

\* C38: provided every external call returns or raises, every
\* generate_quantum_code request eventually ends in success or in failure, and
\* it makes at most max_retries external calls in each of its stages and at
\* most 5 * max_retries in total.
C38_RequestTerminatesWithinBudget ==
    /\ []((opc # "idle") =>
            /\ calls <= max_retries
            /\ Len(invoked) <= 5
            /\ request_calls <= 5 * max_retries)
    /\ (opc = "running") ~> (opc \in {"returned", "raised"})

\* A request that succeeded after spending its whole budget of calls
C38_Witness ==
    /\ opc = "returned"
    /\ max_retries >= 2
    /\ request_calls = 5 * max_retries

\* The orderings of a component list
Orderings(components) ==
    {[i \in 1..Len(components) |-> components[p[i]]] :
        p \in Permutations(1..Len(components))}

\* C39: the outcome of parameter validation does not depend on the order of
\* the selected components: for every ordering of the component list the
\* required schema built from it makes _validate_param_map return the valid
\* flag and the missing names it returned in the call made, also when two
\* components declare the same name with and without a default.
C39_ValidationIgnoresComponentOrder ==
    (fn = "ParamProcessorAgent.process") =>
        \A other \in Orderings(fn_arg.schemas) :
            validate_param_map(fn_arg.data, RequiredSchema(other))
                = validate_param_map(fn_arg.data, RequiredSchema(fn_arg.schemas))

====
